---------------------------- MODULE Spec2Model ----------------------------
(***************************************************************************)
(* React Hooks Interactive Demo: the application Shell (App.tsx), the      *)
(* topic Selector (Sidebar.tsx) and the timers the demo panels register.   *)
(*                                                                         *)
(* One step of the model is one browser event run to completion: the       *)
(* event handler, React's batched state update, the re-render, and the     *)
(* effect cleanups and effects that the re-render schedules.               *)
(***************************************************************************)
EXTENDS Naturals, Integers, Sequences, FiniteSets, TLC

VARIABLES
    selectedHook,   \* App: useState<HookType>('useState')
    sidebarOpen,    \* App: useState(false)
    main,           \* the element rendered inside <main> by renderHookDemo()
    calls,          \* the Shell callbacks the last Sidebar event invoked, in order
    lastEvent,      \* the browser event the last step processed
    timers,         \* the browser's active setInterval / setTimeout registrations
    nextTimerId,    \* the id the next setInterval / setTimeout returns
    cbDemo,         \* UseCallbackDemo: seconds, isRunning, timerRef
    refDemo,        \* UseRefDemo: seconds, isRunning, timerRef
    effDemo,        \* UseEffectDemo: timer, isTimerRunning, timerRef
    notifications,  \* NotificationSystem: the ids of the notifications shown
    redTimer,       \* UseReducerDemo: timerState
    redForm,        \* UseReducerDemo: formState
    impTimer,       \* ImperativeTimer: timeRemaining, isRunning, initialTime
    scrollSync,     \* ScrollSync: isScrolling and the reset timeout of its effect
    effSearch,      \* UseEffectDemo: searchTerm, searchResults, isSearching, searchTimeoutRef
    dbgTimer,       \* TimerExample / useTimer: timeLeft, isRunning
    dbgFetch,       \* FetchExample / useFetch: url, enabled, data, loading, error
    rArg,           \* render harness: the id renderHookDemo was applied to
    rOut,           \* render harness: the element it returned
    rPrevArg,       \* render harness: the id of the previous application
    rPrevOut,       \* render harness: the element of the previous application
    lsCall,         \* useLocalStorage harness: stored item, initialValue, storedValue
    catCall,        \* getCategoryColor harness: category, style, previous category
    pureCall        \* reducer harness: a reducer applied twice to one state and action

navVars    == <<selectedHook, sidebarOpen, main, calls>>
timerVars  == <<timers, nextTimerId>>
panelVars  == <<cbDemo, refDemo, effDemo, notifications, redTimer, redForm,
               impTimer, scrollSync, effSearch, dbgTimer, dbgFetch>>
renderVars == <<rArg, rOut, rPrevArg, rPrevOut>>
harnessVars == <<rArg, rOut, rPrevArg, rPrevOut, lsCall, catCall, pureCall>>
appVars == <<selectedHook, sidebarOpen, main, calls, lastEvent, timers, nextTimerId,
             cbDemo, refDemo, effDemo, notifications, redTimer, redForm,
             impTimer, scrollSync, effSearch, dbgTimer, dbgFetch>>
vars == <<selectedHook, sidebarOpen, main, calls, lastEvent, timers, nextTimerId,
          cbDemo, refDemo, effDemo, notifications, redTimer, redForm,
          impTimer, scrollSync, effSearch, dbgTimer, dbgFetch,
          rArg, rOut, rPrevArg, rPrevOut,
          lsCall, catCall, pureCall>>

\* the state of every panel but one
panelsExceptCb     == <<refDemo, effDemo, notifications, redTimer, redForm, impTimer, scrollSync,
                        effSearch, dbgTimer, dbgFetch>>
panelsExceptRef    == <<cbDemo, effDemo, notifications, redTimer, redForm, impTimer, scrollSync,
                        effSearch, dbgTimer, dbgFetch>>
panelsExceptEff    == <<cbDemo, refDemo, notifications, redTimer, redForm, impTimer, scrollSync,
                        effSearch, dbgTimer, dbgFetch>>
panelsExceptNotif  == <<cbDemo, refDemo, effDemo, redTimer, redForm, impTimer, scrollSync,
                        effSearch, dbgTimer, dbgFetch>>
panelsExceptRedTimer == <<cbDemo, refDemo, effDemo, notifications, redForm, impTimer, scrollSync,
                        effSearch, dbgTimer, dbgFetch>>
panelsExceptRedForm  == <<cbDemo, refDemo, effDemo, notifications, redTimer, impTimer, scrollSync,
                        effSearch, dbgTimer, dbgFetch>>
panelsExceptImp    == <<cbDemo, refDemo, effDemo, notifications, redTimer, redForm, scrollSync,
                        effSearch, dbgTimer, dbgFetch>>
panelsExceptSearch == <<cbDemo, refDemo, effDemo, notifications, redTimer, redForm, impTimer,
                        scrollSync, dbgTimer, dbgFetch>>
panelsExceptDbgTimer == <<cbDemo, refDemo, effDemo, notifications, redTimer, redForm, impTimer,
                          scrollSync, effSearch, dbgFetch>>
panelsExceptDbgFetch == <<cbDemo, refDemo, effDemo, notifications, redTimer, redForm, impTimer,
                          scrollSync, effSearch, dbgTimer>>
panelsExceptScroll == <<cbDemo, refDemo, effDemo, notifications, redTimer, redForm, impTimer,
                        effSearch, dbgTimer, dbgFetch>>

----------------------------------------------------------------------------
(* Bounds of the model *)

MaxTimerId == 3         \* setInterval / setTimeout is called at most this often
MaxSeconds == 2         \* the displayed second counters are followed up to here
MaxNotifications == 2   \* notifications shown at the same time

----------------------------------------------------------------------------
(* Sidebar.tsx: the catalog *)

hooks ==
    << [id |-> "useState",            category |-> "Basic"],
       [id |-> "useEffect",           category |-> "Basic"],
       [id |-> "useContext",          category |-> "Basic"],
       [id |-> "useReducer",          category |-> "Advanced"],
       [id |-> "useCallback",         category |-> "Performance"],
       [id |-> "useMemo",             category |-> "Performance"],
       [id |-> "useRef",              category |-> "Advanced"],
       [id |-> "useImperativeHandle", category |-> "Advanced"],
       [id |-> "useLayoutEffect",     category |-> "Advanced"],
       [id |-> "useDebugValue",       category |-> "Advanced"] >>

\* App.tsx: type HookType
HookType ==
    {"useState", "useEffect", "useContext", "useReducer", "useCallback", "useMemo",
     "useRef", "useImperativeHandle", "useLayoutEffect", "useDebugValue"}

\* ids that are no HookType, as a caller outside the type system can pass them
UnknownIds == {"useId", "useTransition", "useSyncExternalStore"}

Placeholder == "ComingSoon"

\* the components App.tsx imports as demo panels
DemoPanels ==
    {"UseStateDemo", "UseEffectDemo", "UseContextDemo", "UseReducerDemo",
     "UseCallbackDemo", "UseMemoDemo", "UseRefDemo", "UseImperativeHandleDemo",
     "UseLayoutEffectDemo", "UseDebugValueDemo"}

----------------------------------------------------------------------------
(* App.tsx *)

renderHookDemo_TwoCasesOneJsx(hook) ==
    CASE hook = "useState"            -> "UseStateDemo"
      [] hook = "useEffect"           -> "UseEffectDemo"
      [] hook = "useContext"          -> "UseContextDemo"
      [] hook = "useReducer"          -> "UseReducerDemo"
      [] hook = "useCallback"         -> "UseCallbackDemo"
      [] hook = "useMemo"             -> "UseMemoDemo"
      [] hook = "useRef"              -> "UseRefDemo"
      [] hook = "useImperativeHandle" -> "UseRefDemo"
      [] hook = "useLayoutEffect"     -> "UseLayoutEffectDemo"
      [] hook = "useDebugValue"       -> "UseDebugValueDemo"
      [] OTHER                        -> Placeholder

renderHookDemo_NoDefault(hook) ==
    CASE hook = "useState"            -> "UseStateDemo"
      [] hook = "useEffect"           -> "UseEffectDemo"
      [] hook = "useContext"          -> "UseContextDemo"
      [] hook = "useReducer"          -> "UseReducerDemo"
      [] hook = "useCallback"         -> "UseCallbackDemo"
      [] hook = "useMemo"             -> "UseMemoDemo"
      [] hook = "useRef"              -> "UseRefDemo"
      [] hook = "useImperativeHandle" -> "UseImperativeHandleDemo"
      [] hook = "useLayoutEffect"     -> "UseLayoutEffectDemo"
      [] hook = "useDebugValue"       -> "UseDebugValueDemo"
      [] OTHER                        -> "undefined"

\* the switch over selectedHook
renderHookDemo(hook) ==
    CASE hook = "useState"            -> "UseStateDemo"
      [] hook = "useEffect"           -> "UseEffectDemo"
      [] hook = "useContext"          -> "UseContextDemo"
      [] hook = "useReducer"          -> "UseReducerDemo"
      [] hook = "useCallback"         -> "UseCallbackDemo"
      [] hook = "useMemo"             -> "UseMemoDemo"
      [] hook = "useRef"              -> "UseRefDemo"
      [] hook = "useImperativeHandle" -> "UseImperativeHandleDemo"
      [] hook = "useLayoutEffect"     -> "UseLayoutEffectDemo"
      [] hook = "useDebugValue"       -> "UseDebugValueDemo"
      [] OTHER                        -> Placeholder

\* the demo panels mounted when <main> holds element e
MountedPanels(e) == {e} \cap DemoPanels

InitialSidebarOpen_Open == TRUE

\* useState<HookType>('useState') and useState(false)
InitialSelectedHook == "useState"
InitialSidebarOpen == FALSE

\* onHookSelect={setSelectedHook}
setSelectedHook(nav, hook) == [nav EXCEPT !.selectedHook = hook]

onClose_Toggles(nav) == [nav EXCEPT !.sidebarOpen = ~nav.sidebarOpen]

\* onClose={() => setSidebarOpen(false)}
onClose(nav) == [nav EXCEPT !.sidebarOpen = FALSE]

headerToggle_AlsoResets(nav) ==
    [nav EXCEPT !.sidebarOpen = ~nav.sidebarOpen, !.selectedHook = InitialSelectedHook]

\* the header button: onClick={() => setSidebarOpen(!sidebarOpen)}
headerToggle(nav) == [nav EXCEPT !.sidebarOpen = ~nav.sidebarOpen]

----------------------------------------------------------------------------
(* Sidebar.tsx: the click handlers, as the callbacks they invoke in order *)

Call(cb, arg) == [cb |-> cb, arg |-> arg]

rowOnClick_CloseFirst(id) == << Call("onClose", ""), Call("onHookSelect", id) >>

rowOnClick_SelectOnly(id) == << Call("onHookSelect", id) >>

\* the row button: onClick={() => { onHookSelect(hook.id); onClose() }}
rowOnClick(id) == << Call("onHookSelect", id), Call("onClose", "") >>

overlayOnClick_Selects == << Call("onHookSelect", hooks[1].id), Call("onClose", "") >>

\* the overlay: onClick={onClose}
overlayOnClick == << Call("onClose", "") >>

\* the header X button: onClick={onClose}
closeButtonOnClick == << Call("onClose", "") >>

getCategoryColor_DefaultBlue(category) ==
    CASE category = "Basic" -> "bg-green-100 text-green-800 hover:bg-green-200"
      [] category = "Advanced" -> "bg-blue-100 text-blue-800 hover:bg-blue-200"
      [] category = "Performance" -> "bg-purple-100 text-purple-800 hover:bg-purple-200"
      [] OTHER -> "bg-blue-100 text-blue-800 hover:bg-blue-200"

\* switch (category) { case 'Basic': ... default: ... }
getCategoryColor(category) ==
    CASE category = "Basic" -> "bg-green-100 text-green-800 hover:bg-green-200"
      [] category = "Advanced" -> "bg-blue-100 text-blue-800 hover:bg-blue-200"
      [] category = "Performance" -> "bg-purple-100 text-purple-800 hover:bg-purple-200"
      [] OTHER -> "bg-gray-100 text-gray-800 hover:bg-gray-200"

SidebarRows_HighlightInitial(sel, isOpen) ==
    [i \in 1..Len(hooks) |->
        [id |-> hooks[i].id,
         category |-> hooks[i].category,
         badge |-> getCategoryColor(hooks[i].category),
         selected |-> InitialSelectedHook = hooks[i].id]]

SidebarRows_SelectedFirst(sel, isOpen) ==
    LET order == SelectSeq(hooks, LAMBDA h : h.id = sel)
                     \o SelectSeq(hooks, LAMBDA h : h.id # sel)
    IN  [i \in 1..Len(order) |->
            [id |-> order[i].id,
             category |-> order[i].category,
             badge |-> getCategoryColor(order[i].category),
             selected |-> sel = order[i].id]]

\* {hooks.map((hook) => <Button key={hook.id} ...>)}: one row per entry of
\* hooks, in the order of the array; isOpen only moves the whole panel
SidebarRows(sel, isOpen) ==
    [i \in 1..Len(hooks) |->
        [id |-> hooks[i].id,
         category |-> hooks[i].category,
         badge |-> getCategoryColor(hooks[i].category),
         selected |-> sel = hooks[i].id]]

\* the overlay is rendered only under {isOpen && ...}
overlayPresent(isOpen) == isOpen

\* the Shell runs each callback of a handler, in order, on the state the
\* previous one left (React batches the updates of one handler and applies
\* them in program order before it re-renders)
RECURSIVE ApplyCalls(_, _)
ApplyCalls(cs, nav) ==
    IF cs = << >> THEN nav
    ELSE LET c == Head(cs)
             n == IF c.cb = "onHookSelect" THEN setSelectedHook(nav, c.arg)
                  ELSE onClose(nav)
         IN  ApplyCalls(Tail(cs), n)

Nav == [selectedHook |-> selectedHook, sidebarOpen |-> sidebarOpen]


----------------------------------------------------------------------------
(* The browser's timer table.  A registration is live while the component  *)
(* instance whose handler created it is mounted; live is bookkeeping of    *)
(* the model, the browser keeps no such flag.                              *)

Null == 0   \* useRef<NodeJS.Timeout | null>(null); timer ids start at 1

Timer(id, kind, tag, arg) ==
    [id |-> id, kind |-> kind, tag |-> tag, arg |-> arg, live |-> TRUE]

setInterval(ts, id, tag) == ts \cup {Timer(id, "interval", tag, 0)}

setTimeout(ts, id, tag, arg) == ts \cup {Timer(id, "timeout", tag, arg)}

\* clearInterval(id) / clearTimeout(id); clearing an id that is not active does nothing
clearTimer(ts, id) == {t \in ts : t.id # id}

\* if (ref.current) clearInterval(ref.current)
clearRef(ts, ref) == IF ref # Null THEN clearTimer(ts, ref) ELSE ts

Result(d, ts, nid) == [demo |-> d, timers |-> ts, nextTimerId |-> nid]

----------------------------------------------------------------------------
(* UseCallbackDemo: Example 4, timer with useCallback *)

UseCallbackDemo_init == [seconds |-> 0, isRunning |-> FALSE, timerRef |-> Null]

UseCallbackDemo_startTimer(d, ts, nid) ==
    Result([d EXCEPT !.isRunning = TRUE, !.timerRef = nid],
           setInterval(ts, nid, "UseCallbackDemo.timer"), nid + 1)

UseCallbackDemo_stopTimer_KeepsInterval(d, ts, nid) ==
    Result([d EXCEPT !.isRunning = FALSE], ts, nid)

UseCallbackDemo_stopTimer(d, ts, nid) ==
    Result([d EXCEPT !.isRunning = FALSE, !.timerRef = Null],
           clearRef(ts, d.timerRef), nid)

UseCallbackDemo_resetTimer(d, ts, nid) ==
    Result([d EXCEPT !.seconds = 0, !.isRunning = FALSE, !.timerRef = Null],
           clearRef(ts, d.timerRef), nid)

\* the Start/Stop button: onClick={isRunning ? stopTimer : startTimer}
UseCallbackDemo_startStopOnClick(d, ts, nid) ==
    IF d.isRunning THEN UseCallbackDemo_stopTimer(d, ts, nid)
    ELSE UseCallbackDemo_startTimer(d, ts, nid)

\* the component registers no cleanup for timerRef: unmounting clears nothing
UseCallbackDemo_unmount(d, ts) == ts

----------------------------------------------------------------------------
(* UseRefDemo: Example 2, stopwatch *)

UseRefDemo_init == [seconds |-> 0, isRunning |-> FALSE, timerRef |-> Null]

UseRefDemo_startTimer(d, ts, nid) ==
    IF ~d.isRunning
    THEN Result([d EXCEPT !.isRunning = TRUE, !.timerRef = nid],
                setInterval(ts, nid, "UseRefDemo.timer"), nid + 1)
    ELSE Result(d, ts, nid)

UseRefDemo_stopTimer(d, ts, nid) ==
    IF d.timerRef # Null
    THEN Result([d EXCEPT !.isRunning = FALSE, !.timerRef = Null],
                clearTimer(ts, d.timerRef), nid)
    ELSE Result(d, ts, nid)

UseRefDemo_resetTimer(d, ts, nid) ==
    LET r == UseRefDemo_stopTimer(d, ts, nid)
    IN  Result([r.demo EXCEPT !.seconds = 0], r.timers, r.nextTimerId)

\* the cleanup of useEffect(() => { return () => {...} }, [])
UseRefDemo_unmount(d, ts) == clearRef(ts, d.timerRef)

----------------------------------------------------------------------------
(* UseEffectDemo: Example 3 / Effect 4, timer with cleanup *)

UseEffectDemo_init == [timer |-> 0, isTimerRunning |-> FALSE, timerRef |-> Null]

\* the function Effect 4 returns
UseEffectDemo_timerCleanup(d, ts) == clearRef(ts, d.timerRef)

UseEffectDemo_timerEffect_NoClear(d, ts, nid) ==
    IF d.isTimerRunning
    THEN Result([d EXCEPT !.timerRef = nid],
                setInterval(ts, nid, "UseEffectDemo.timer"), nid + 1)
    ELSE Result(d, ts, nid)

\* the body of Effect 4
UseEffectDemo_timerEffect(d, ts, nid) ==
    IF d.isTimerRunning
    THEN Result([d EXCEPT !.timerRef = nid],
                setInterval(ts, nid, "UseEffectDemo.timer"), nid + 1)
    ELSE Result(d, clearRef(ts, d.timerRef), nid)

\* a re-render with state d1 after state d: Effect 4 depends on
\* [isTimerRunning]; when it changed, the previous cleanup runs, then the body
UseEffectDemo_commit(d, d1, ts, nid) ==
    IF d1.isTimerRunning # d.isTimerRunning
    THEN UseEffectDemo_timerEffect(d1, UseEffectDemo_timerCleanup(d, ts), nid)
    ELSE Result(d1, ts, nid)

\* onClick={() => setIsTimerRunning(!isTimerRunning)}
UseEffectDemo_toggleOnClick(d, ts, nid) ==
    UseEffectDemo_commit(d, [d EXCEPT !.isTimerRunning = ~d.isTimerRunning], ts, nid)

\* onClick={() => { setTimer(0); setIsTimerRunning(false) }}
UseEffectDemo_resetOnClick(d, ts, nid) ==
    UseEffectDemo_commit(d, [d EXCEPT !.timer = 0, !.isTimerRunning = FALSE], ts, nid)

UseEffectDemo_unmount(d, ts) == UseEffectDemo_timerCleanup(d, ts)

----------------------------------------------------------------------------
(* UseImperativeHandleDemo: NotificationSystem *)

RECURSIVE SeqMax(_)
SeqMax(s) == IF s = << >> THEN 0
             ELSE LET m == SeqMax(Tail(s)) IN IF Head(s) > m THEN Head(s) ELSE m

SetMax(S) == IF S = {} THEN 0 ELSE CHOOSE x \in S : \A y \in S : y <= x

\* the latest timestamp still in use
LatestId(ns, ts) ==
    LET a == SeqMax(ns)
        b == SetMax({t.arg : t \in ts})
    IN  IF a > b THEN a ELSE b

\* const id = Date.now(): the readings the millisecond clock can give.  The
\* clock never goes back; a show() that follows another show() directly may
\* read the same millisecond (sameMs), any other call reads a later one
DateNow(ns, ts, sameMs) ==
    IF sameMs /\ LatestId(ns, ts) > 0
    THEN {LatestId(ns, ts), LatestId(ns, ts) + 1}
    ELSE {LatestId(ns, ts) + 1}

RECURSIVE Filter(_, _)
Filter(s, id) ==
    IF s = << >> THEN << >>
    ELSE IF Head(s) # id THEN <<Head(s)>> \o Filter(Tail(s), id)
         ELSE Filter(Tail(s), id)

\* show: setNotifications(prev => [...prev, {id, ...}]); setTimeout(..., 3000)
\* id is what Date.now() returned
NotificationSystem_show(ns, ts, nid, id) ==
    Result(Append(ns, id),
           setTimeout(ts, nid, "NotificationSystem.autoHide", id), nid + 1)

\* hide: setNotifications(prev => prev.slice(1))
NotificationSystem_hide(ns) == IF ns = << >> THEN << >> ELSE Tail(ns)

\* clear: setNotifications([])
NotificationSystem_clear(ns) == << >>

\* the timeout callback: setNotifications(prev => prev.filter(n => n.id !== id))
NotificationSystem_autoHide(ns, id) == Filter(ns, id)

\* show's timeout is never cleared: unmounting clears nothing
NotificationSystem_unmount(ns, ts) == ts


----------------------------------------------------------------------------
(* useLocalStorage: the initializer of its state.  A stored item is a      *)
(* sequence of characters; JSON.parse is the JSON grammar restricted to    *)
(* the characters of StorageChars.                                         *)

MaxItemLen == 3

StorageChars == {"\"", "a", "1", "{", "}"}

RECURSIVE SeqsUpTo(_, _)
SeqsUpTo(S, n) ==
    IF n = 0 THEN {<< >>}
    ELSE LET shorter == SeqsUpTo(S, n - 1)
         IN  shorter \cup {Append(s, c) : s \in {t \in shorter : Len(t) = n - 1}, c \in S}

\* a JSON number made of the digit 1 only: 1, 11, 111, ...
IsJsonNumber(s) == Len(s) >= 1 /\ \A i \in 1..Len(s) : s[i] = "1"

\* a JSON string: a quote, characters other than a quote, a quote
IsJsonString(s) ==
    /\ Len(s) >= 2
    /\ s[1] = "\"" /\ s[Len(s)] = "\""
    /\ \A i \in 2..(Len(s) - 1) : s[i] # "\""

\* the only object that can be written without a colon is {}
IsJsonObject(s) == s = << "{", "}" >>

IsJson(s) == IsJsonNumber(s) \/ IsJsonString(s) \/ IsJsonObject(s)

Returned(v) == [threw |-> FALSE, value |-> v]

Thrown(e) == [threw |-> TRUE, value |-> [type |-> "error", text |-> << e >>]]

\* JSON.parse(text): the parsed value, or a SyntaxError
JSON_parse(s) ==
    CASE IsJsonNumber(s) -> Returned([type |-> "number", text |-> s])
      [] IsJsonString(s) -> Returned([type |-> "string", text |-> SubSeq(s, 2, Len(s) - 1)])
      [] IsJsonObject(s) -> Returned([type |-> "object", text |-> << >>])
      [] OTHER -> Thrown("SyntaxError")

\* window.localStorage.getItem(key): null for a missing key, else the string
StoredItems ==
    {[present |-> FALSE, text |-> << >>]}
        \cup {[present |-> TRUE, text |-> s] : s \in SeqsUpTo(StorageChars, MaxItemLen)}

\* the two callers: useLocalStorage('demo-name', '') and
\* useLocalStorage('demo-preferences', {theme: 'light', notifications: true})
InitialValues ==
    {[type |-> "string", text |-> << >>],
     [type |-> "object", text |-> << "theme", "light", "notifications", "true" >>]}

useLocalStorage_init_NoCatch(item, initialValue) ==
    IF item.present /\ item.text # << >>
    THEN JSON_parse(item.text)
    ELSE Returned(initialValue)

\* useState(() => { try { item ? JSON.parse(item) : initialValue }
\*                  catch { console.error; return initialValue } })
useLocalStorage_init(item, initialValue) ==
    IF item.present /\ item.text # << >>
    THEN LET parsed == JSON_parse(item.text)
         IN  IF parsed.threw THEN Returned(initialValue) ELSE parsed
    ELSE Returned(initialValue)

StorageCall(item, initialValue) ==
    LET r == useLocalStorage_init(item, initialValue)
    IN  [item |-> item, initialValue |-> initialValue,
         storedValue |-> r.value, threw |-> r.threw]

----------------------------------------------------------------------------

(* UseReducerDemo *)

UseReducerDemo_timerInit == [seconds |-> 0, isRunning |-> FALSE, interval |-> 1000]

UseReducerDemo_formInit ==
    [values |-> [name |-> << >>, email |-> << >>, phone |-> << >>],
     errors |-> [name |-> "", email |-> "", phone |-> ""],
     touched |-> {},
     isSubmitting |-> FALSE,
     isValid |-> FALSE]

Action(type, payload) == [type |-> type, payload |-> payload]

\* const timerReducer = (state, action) => { switch (action.type) ... }
timerReducer(state, action) ==
    CASE action.type = "START" -> [state EXCEPT !.isRunning = TRUE]
      [] action.type = "PAUSE" -> [state EXCEPT !.isRunning = FALSE]
      [] action.type = "STOP"  -> [state EXCEPT !.isRunning = FALSE, !.seconds = 0]
      [] action.type = "TICK"  ->
            IF state.isRunning THEN [state EXCEPT !.seconds = state.seconds + 1] ELSE state
      [] action.type = "SET_INTERVAL" -> [state EXCEPT !.interval = action.payload]
      [] OTHER -> state

\* useState(() => { if (isRunning) { const interval = setInterval(TICK, 1000);
\*                                   return () => clearInterval(interval) } })
\* the function is a state initializer: React calls it once, when the panel
\* mounts, with the isRunning of the first render, and keeps what it returns
\* as a state value that nothing reads; it is never called again
UseReducerDemo_timerInitializer(d, ts, nid) ==
    IF d.isRunning
    THEN Result(d, setInterval(ts, nid, "UseReducerDemo.timer"), nid + 1)
    ELSE Result(d, ts, nid)

\* a render after the first one: the initializer is not called
UseReducerDemo_timerRerender(d, ts, nid) == Result(d, ts, nid)

\* onClick={() => timerDispatch({ type: isRunning ? 'PAUSE' : 'START' })}
UseReducerDemo_timerToggleOnClick(d, ts, nid) ==
    UseReducerDemo_timerRerender(
        timerReducer(d, Action(IF d.isRunning THEN "PAUSE" ELSE "START", 0)), ts, nid)

\* onClick={() => timerDispatch({ type: 'STOP' })}
UseReducerDemo_timerStopOnClick(d, ts, nid) ==
    UseReducerDemo_timerRerender(timerReducer(d, Action("STOP", 0)), ts, nid)

\* /\S+@\S+\.\S+/.test(s): somewhere in s a non-space character, "@", one or
\* more non-space characters, ".", a non-space character
EmailPatternTest(s) ==
    \E a \in 1..Len(s), d \in 1..Len(s) :
        /\ s[a] = "@" /\ a > 1 /\ s[a - 1] # " "
        /\ s[d] = "." /\ d > a + 1
        /\ \A k \in (a + 1)..(d - 1) : s[k] # " "
        /\ d < Len(s) /\ s[d + 1] # " "

NoErrors == [name |-> "", email |-> "", phone |-> ""]

\* const formReducer = (state, action) => { switch (action.type) ... };
\* a field that was never set reads as the empty string (!undefined = !''),
\* an error key that is absent reads as ""
formReducer(state, action) ==
    CASE action.type = "SET_FIELD" ->
            [state EXCEPT !.values[action.payload.field] = action.payload.value]
      [] action.type = "SET_ERROR" ->
            [state EXCEPT !.errors[action.payload.field] = action.payload.error]
      [] action.type = "CLEAR_ERROR" -> [state EXCEPT !.errors[action.payload] = ""]
      [] action.type = "TOUCH_FIELD" ->
            [state EXCEPT !.touched = state.touched \cup {action.payload}]
      [] action.type = "SET_SUBMITTING" -> [state EXCEPT !.isSubmitting = action.payload]
      [] action.type = "VALIDATE_FORM" ->
            LET errors ==
                    [name  |-> IF state.values.name = << >> THEN "Name is required" ELSE "",
                     email |-> IF state.values.email = << >> THEN "Email is required"
                               ELSE IF ~EmailPatternTest(state.values.email)
                                    THEN "Email is invalid" ELSE "",
                     phone |-> IF state.values.phone = << >> THEN "Phone is required" ELSE ""]
            IN  [state EXCEPT !.errors = errors, !.isValid = (errors = NoErrors)]
      [] action.type = "RESET_FORM" -> UseReducerDemo_formInit
      [] OTHER -> state

\* onChange: SET_FIELD then CLEAR_ERROR for the same field
UseReducerDemo_fieldOnChange(d, field, value) ==
    formReducer(formReducer(d, Action("SET_FIELD", [field |-> field, value |-> value])),
                Action("CLEAR_ERROR", field))

\* handleFormSubmit up to its await: VALIDATE_FORM is dispatched, then the
\* handler reads formState.isValid of the render it was created in, which is
\* the state before the click (d), not the state VALIDATE_FORM produces
handleFormSubmit(d, ts, nid) ==
    LET validated == formReducer(d, Action("VALIDATE_FORM", 0))
    IN  IF d.isValid
        THEN Result(formReducer(validated, Action("SET_SUBMITTING", TRUE)),
                    setTimeout(ts, nid, "UseReducerDemo.submit", 0), nid + 1)
        ELSE Result(validated, ts, nid)

\* handleFormSubmit after the await: SET_SUBMITTING false, then RESET_FORM
handleFormSubmit_resume(d) ==
    formReducer(formReducer(d, Action("SET_SUBMITTING", FALSE)), Action("RESET_FORM", 0))

\* const counterReducer = (state, action) => { switch (action.type) ... }
counterReducer(state, action) ==
    CASE action.type = "INCREMENT" -> [state EXCEPT !.count = state.count + state.step]
      [] action.type = "DECREMENT" -> [state EXCEPT !.count = state.count - state.step]
      [] action.type = "RESET"     -> [state EXCEPT !.count = 0]
      [] action.type = "SET_STEP"  -> [state EXCEPT !.step = action.payload]
      [] action.type = "SET_COUNT" -> [state EXCEPT !.count = action.payload]
      [] OTHER -> state

\* const todoReducer = (state, action) => { switch (action.type) ... };
\* now is what Date.now() returns when ADD_TODO is reduced; editingId null is ""
todoReducer(state, action, now) ==
    CASE action.type = "ADD_TODO" ->
            [state EXCEPT !.todos =
                Append(state.todos, [id |-> ToString(now),
                                     text |-> action.payload.text,
                                     completed |-> FALSE,
                                     priority |-> action.payload.priority])]
      [] action.type = "TOGGLE_TODO" ->
            [state EXCEPT !.todos =
                [i \in 1..Len(state.todos) |->
                    IF state.todos[i].id = action.payload
                    THEN [state.todos[i] EXCEPT !.completed = ~state.todos[i].completed]
                    ELSE state.todos[i]]]
      [] action.type = "DELETE_TODO" ->
            [state EXCEPT !.todos = SelectSeq(state.todos, LAMBDA todo : todo.id # action.payload)]
      [] action.type = "EDIT_TODO" -> [state EXCEPT !.editingId = action.payload]
      [] action.type = "UPDATE_TODO" ->
            [state EXCEPT !.todos =
                [i \in 1..Len(state.todos) |->
                    IF state.todos[i].id = action.payload.id
                    THEN [state.todos[i] EXCEPT !.text = action.payload.text]
                    ELSE state.todos[i]],
                          !.editingId = ""]
      [] action.type = "CANCEL_EDIT" -> [state EXCEPT !.editingId = ""]
      [] action.type = "SET_FILTER" -> [state EXCEPT !.filter = action.payload]
      [] action.type = "CLEAR_COMPLETED" ->
            [state EXCEPT !.todos = SelectSeq(state.todos, LAMBDA todo : ~todo.completed)]
      [] action.type = "SET_PRIORITY" ->
            [state EXCEPT !.todos =
                [i \in 1..Len(state.todos) |->
                    IF state.todos[i].id = action.payload.id
                    THEN [state.todos[i] EXCEPT !.priority = action.payload.priority]
                    ELSE state.todos[i]]]
      [] OTHER -> state

RECURSIVE Subtotal(_)
\* items.reduce((sum, item) => sum + item.price * item.quantity, 0)
Subtotal(items) ==
    IF items = << >> THEN 0
    ELSE Head(items).price * Head(items).quantity + Subtotal(Tail(items))

\* const cartReducer = (state, action) => { switch (action.type) ... };
\* prices are in cents and tax in hundredths of a cent, so that 8% is exact
cartReducer(state, action) ==
    CASE action.type = "ADD_ITEM" ->
            IF \E i \in 1..Len(state.items) : state.items[i].id = action.payload.id
            THEN [state EXCEPT !.items =
                    [i \in 1..Len(state.items) |->
                        IF state.items[i].id = action.payload.id
                        THEN [state.items[i] EXCEPT !.quantity = state.items[i].quantity + 1]
                        ELSE state.items[i]]]
            ELSE [state EXCEPT !.items =
                    Append(state.items, [id |-> action.payload.id,
                                         name |-> action.payload.name,
                                         price |-> action.payload.price,
                                         quantity |-> 1])]
      [] action.type = "REMOVE_ITEM" ->
            [state EXCEPT !.items = SelectSeq(state.items, LAMBDA item : item.id # action.payload)]
      [] action.type = "UPDATE_QUANTITY" ->
            IF action.payload.quantity <= 0
            THEN [state EXCEPT !.items =
                    SelectSeq(state.items, LAMBDA item : item.id # action.payload.id)]
            ELSE [state EXCEPT !.items =
                    [i \in 1..Len(state.items) |->
                        IF state.items[i].id = action.payload.id
                        THEN [state.items[i] EXCEPT !.quantity = action.payload.quantity]
                        ELSE state.items[i]]]
      [] action.type = "APPLY_DISCOUNT" -> [state EXCEPT !.discount = action.payload]
      [] action.type = "SET_SHIPPING" -> [state EXCEPT !.shipping = action.payload]
      [] action.type = "CLEAR_CART" ->
            [state EXCEPT !.items = << >>, !.discount = 0, !.shipping = 0]
      [] action.type = "CALCULATE_TAX" -> [state EXCEPT !.tax = Subtotal(state.items) * 8]
      [] OTHER -> state

----------------------------------------------------------------------------
(* UseImperativeHandleDemo: ImperativeTimer *)

MaxTimeRemaining == 70

\* useState(60), useState(false), useState(60); interval is the id held by the
\* cleanup of the effect; timerSeconds is the parent's useState('60')
ImperativeTimer_init ==
    [timeRemaining |-> 60, isRunning |-> FALSE, initialTime |-> 60, interval |-> Null,
     timerSeconds |-> << "6", "0" >>]

DigitValue ==
    ("0" :> 0) @@ ("1" :> 1) @@ ("2" :> 2) @@ ("3" :> 3) @@ ("4" :> 4) @@
    ("5" :> 5) @@ ("6" :> 6) @@ ("7" :> 7) @@ ("8" :> 8) @@ ("9" :> 9)

RECURSIVE DecimalValue(_)
DecimalValue(s) ==
    IF s = << >> THEN 0
    ELSE DecimalValue(SubSeq(s, 1, Len(s) - 1)) * 10 + DigitValue[s[Len(s)]]

\* the length of the longest prefix of s made of digits
LeadingDigits(s) ==
    CHOOSE n \in 0..Len(s) :
        /\ \A i \in 1..n : s[i] \in DOMAIN DigitValue
        /\ n < Len(s) => s[n + 1] \notin DOMAIN DigitValue

RECURSIVE TrimStart(_)
TrimStart(s) == IF s # << >> /\ Head(s) = " " THEN TrimStart(Tail(s)) ELSE s

\* parseInt(string): leading blanks are skipped, then an optional sign, then
\* the longest run of digits; NaN when there is no digit
parseInt(string) ==
    LET t == TrimStart(string)
        signed == t # << >> /\ Head(t) \in {"-", "+"}
        body == IF signed THEN Tail(t) ELSE t
        n == LeadingDigits(body)
        magnitude == DecimalValue(SubSeq(body, 1, n))
    IN  IF n = 0 THEN [isNaN |-> TRUE, value |-> 0]
        ELSE [isNaN |-> FALSE,
              value |-> IF signed /\ Head(t) = "-" THEN 0 - magnitude ELSE magnitude]

\* Math.max(0, x)
Math_max0(x) == IF x > 0 THEN x ELSE 0

\* a re-render with state d1 after state d: the effect depends on
\* [isRunning, timeRemaining]; when one changed, the previous cleanup runs
\* (clearInterval), then the body, which sets an interval only under
\* isRunning && timeRemaining > 0
ImperativeTimer_commit(d, d1, ts, nid) ==
    IF d1.isRunning # d.isRunning \/ d1.timeRemaining # d.timeRemaining
    THEN IF d1.isRunning /\ d1.timeRemaining > 0
         THEN Result([d1 EXCEPT !.interval = nid],
                     setInterval(clearRef(ts, d.interval), nid, "ImperativeTimer.tick"),
                     nid + 1)
         ELSE Result([d1 EXCEPT !.interval = Null], clearRef(ts, d.interval), nid)
    ELSE Result(d1, ts, nid)

\* start: () => setIsRunning(true)
ImperativeTimer_start(d, ts, nid) ==
    ImperativeTimer_commit(d, [d EXCEPT !.isRunning = TRUE], ts, nid)

\* pause: () => setIsRunning(false)
ImperativeTimer_pause(d, ts, nid) ==
    ImperativeTimer_commit(d, [d EXCEPT !.isRunning = FALSE], ts, nid)

\* reset: () => { setTimeRemaining(initialTime); setIsRunning(false) }
ImperativeTimer_reset(d, ts, nid) ==
    ImperativeTimer_commit(d, [d EXCEPT !.timeRemaining = d.initialTime,
                                        !.isRunning = FALSE], ts, nid)

\* setTime: (seconds) => { setTimeRemaining(seconds); setInitialTime(seconds) }
ImperativeTimer_setTime(d, seconds, ts, nid) ==
    ImperativeTimer_commit(d, [d EXCEPT !.timeRemaining = seconds,
                                        !.initialTime = seconds], ts, nid)

\* addTime: (seconds) => setTimeRemaining(prev => Math.max(0, prev + seconds))
ImperativeTimer_addTime(d, seconds, ts, nid) ==
    ImperativeTimer_commit(d, [d EXCEPT !.timeRemaining = Math_max0(d.timeRemaining + seconds)],
                           ts, nid)

\* the interval callback: setTimeRemaining(prev => { if (prev <= 1)
\* { setIsRunning(false); return 0 } return prev - 1 })
ImperativeTimer_tick(d, ts, nid) ==
    ImperativeTimer_commit(d,
        IF d.timeRemaining <= 1
        THEN [d EXCEPT !.timeRemaining = 0, !.isRunning = FALSE]
        ELSE [d EXCEPT !.timeRemaining = d.timeRemaining - 1],
        ts, nid)

\* handleSetTimer of the parent: setTime only for a number greater than 0
handleSetTimer(d, ts, nid) ==
    LET seconds == parseInt(d.timerSeconds)
    IN  IF ~seconds.isNaN /\ seconds.value > 0
        THEN ImperativeTimer_setTime(d, seconds.value, ts, nid)
        ELSE Result(d, ts, nid)

\* {isRunning ? 'Running' : timeRemaining === 0 ? 'Finished' : 'Paused'}
ImperativeTimer_status(d) ==
    IF d.isRunning THEN "Running"
    ELSE IF d.timeRemaining = 0 THEN "Finished" ELSE "Paused"

ImperativeTimer_unmount(d, ts) == clearRef(ts, d.interval)

----------------------------------------------------------------------------
(* UseLayoutEffectDemo: ScrollSync *)

\* ScrollSync is rendered in the tab Positioning, which is not the tab the
\* panel opens with: mounted says whether that tab is open.  timer is the id
\* the effect's cleanup holds.
ScrollSync_init ==
    [mounted |-> FALSE, scrollPosition |-> 0, isScrolling |-> FALSE, timer |-> Null]

\* useLayoutEffect(() => { container.addEventListener('scroll', handleScroll);
\*     const timer = setTimeout(() => setIsScrolling(false), 150); ... }, [])
\* the empty dependency list runs the body once, when ScrollSync mounts
ScrollSync_mount(d, ts, nid) ==
    Result([d EXCEPT !.mounted = TRUE, !.timer = nid],
           setTimeout(ts, nid, "ScrollSync.reset", 0), nid + 1)

\* handleScroll: setScrollPosition(percentage); setIsScrolling(true)
ScrollSync_handleScroll(d, percentage) ==
    [d EXCEPT !.scrollPosition = percentage, !.isScrolling = TRUE]

\* the timeout's callback: setIsScrolling(false)
ScrollSync_timeout(d) == [d EXCEPT !.isScrolling = FALSE]

\* the effect's cleanup: removeEventListener('scroll', handleScroll);
\* clearTimeout(timer)
ScrollSync_unmount(d, ts) == IF d.mounted THEN clearRef(ts, d.timer) ELSE ts

\* {isScrolling ? 'Scrolling' : 'Idle'}
ScrollSync_badge(d) == IF d.isScrolling THEN "Scrolling" ELSE "Idle"

----------------------------------------------------------------------------
(* UseEffectDemo: Effect 7, search with debounce *)

\* strings are sequences of characters
UseEffectDemo_searchInit ==
    [searchTerm |-> << >>, searchResults |-> << >>, isSearching |-> FALSE,
     searchTimeoutRef |-> Null]

MockData ==
    << << "R", "e", "a", "c", "t", " ", "H", "o", "o", "k", "s" >>,
       << "u", "s", "e", "E", "f", "f", "e", "c", "t", " ", "G", "u", "i", "d", "e" >>,
       << "S", "t", "a", "t", "e", " ", "M", "a", "n", "a", "g", "e", "m", "e", "n", "t" >>,
       << "C", "o", "m", "p", "o", "n", "e", "n", "t", " ", "L", "i", "f", "e", "c", "y", "c", "l", "e" >>,
       << "S", "i", "d", "e", " ", "E", "f", "f", "e", "c", "t", "s" >> >>

\* String.prototype.toLowerCase on the letters that occur
ToLowerChar(c) ==
    CASE c = "C" -> "c"
      [] c = "E" -> "e"
      [] c = "G" -> "g"
      [] c = "H" -> "h"
      [] c = "L" -> "l"
      [] c = "M" -> "m"
      [] c = "R" -> "r"
      [] c = "S" -> "s"
      [] OTHER -> c

toLowerCase(s) == [i \in 1..Len(s) |-> ToLowerChar(s[i])]

\* String.prototype.includes
includes(s, sub) ==
    \E i \in 1..(Len(s) + 1) :
        /\ i + Len(sub) - 1 <= Len(s)
        /\ SubSeq(s, i, i + Len(sub) - 1) = sub

\* the cleanup the effect returns when searchTerm is not empty
UseEffectDemo_searchCleanup(d, ts) ==
    IF d.searchTerm # << >> THEN clearRef(ts, d.searchTimeoutRef) ELSE ts

\* the body of Effect 7 for the state d1
UseEffectDemo_searchEffect(d1, ts, nid) ==
    IF d1.searchTerm = << >>
    THEN Result([d1 EXCEPT !.searchResults = << >>], ts, nid)
    ELSE Result([d1 EXCEPT !.isSearching = TRUE, !.searchTimeoutRef = nid],
                setTimeout(clearRef(ts, d1.searchTimeoutRef), nid,
                           "UseEffectDemo.search", 0),
                nid + 1)

\* onChange={(e) => setSearchTerm(e.target.value)} and the re-render: Effect 7
\* depends on [searchTerm]; the previous cleanup runs, then the body
UseEffectDemo_searchOnChange(d, value, ts, nid) ==
    IF value # d.searchTerm
    THEN UseEffectDemo_searchEffect([d EXCEPT !.searchTerm = value],
                                    UseEffectDemo_searchCleanup(d, ts), nid)
    ELSE Result(d, ts, nid)

\* the 500 ms timeout's callback: the filter over the mock data, then
\* setSearchResults(mockResults); setIsSearching(false)
UseEffectDemo_searchTimeout(d) ==
    [d EXCEPT !.searchResults =
                 SelectSeq(MockData,
                           LAMBDA item : includes(toLowerCase(item), toLowerCase(d.searchTerm))),
              !.isSearching = FALSE]

----------------------------------------------------------------------------
(* UseDebugValueDemo: useTimer and TimerExample *)

TimerDuration == 30     \* useTimer(30)

MaxCountdownTimerId == 32   \* timeouts one mounted TimerExample may set

\* useState(duration), useState(false); timer is the id the effect's cleanup holds
useTimer_init(duration) == [timeLeft |-> duration, isRunning |-> FALSE, timer |-> Null]

\* a re-render with state d1 after state d: the effect depends on
\* [timeLeft, isRunning]; when one changed, the previous cleanup runs
\* (clearTimeout), then the body, which returns early under
\* !isRunning || timeLeft === 0 and else sets a 1000 ms timeout
useTimer_commit(d, d1, ts, nid) ==
    IF d1.timeLeft # d.timeLeft \/ d1.isRunning # d.isRunning
    THEN IF ~d1.isRunning \/ d1.timeLeft = 0
         THEN Result([d1 EXCEPT !.timer = Null], clearRef(ts, d.timer), nid)
         ELSE Result([d1 EXCEPT !.timer = nid],
                     setTimeout(clearRef(ts, d.timer), nid, "useTimer.timeout", 0), nid + 1)
    ELSE Result(d1, ts, nid)

\* start: () => setIsRunning(true)
useTimer_start(d, ts, nid) == useTimer_commit(d, [d EXCEPT !.isRunning = TRUE], ts, nid)

\* pause: () => setIsRunning(false)
useTimer_pause(d, ts, nid) == useTimer_commit(d, [d EXCEPT !.isRunning = FALSE], ts, nid)

\* reset: () => { setTimeLeft(duration); setIsRunning(false) }
useTimer_reset(d, duration, ts, nid) ==
    useTimer_commit(d, [d EXCEPT !.timeLeft = duration, !.isRunning = FALSE], ts, nid)

useTimer_timeout_KeepsRunning(d, ts, nid) ==
    useTimer_commit(d,
        IF d.timeLeft <= 1
        THEN [d EXCEPT !.timeLeft = 0]
        ELSE [d EXCEPT !.timeLeft = d.timeLeft - 1],
        clearRef(ts, d.timer), nid)

\* the timeout's callback, the timeout being spent: setTimeLeft(prev =>
\* { if (prev <= 1) { setIsRunning(false); return 0 } return prev - 1 })
useTimer_timeout(d, ts, nid) ==
    useTimer_commit(d,
        IF d.timeLeft <= 1
        THEN [d EXCEPT !.timeLeft = 0, !.isRunning = FALSE]
        ELSE [d EXCEPT !.timeLeft = d.timeLeft - 1],
        clearRef(ts, d.timer), nid)

\* <Button onClick={start} disabled={isRunning || timeLeft === 0}>
TimerExample_startDisabled(d) == d.isRunning \/ d.timeLeft = 0

\* <Button onClick={pause} disabled={!isRunning}>
TimerExample_pauseDisabled(d) == ~d.isRunning

\* the effect's cleanup on unmount
useTimer_unmount(d, ts) == clearRef(ts, d.timer)

----------------------------------------------------------------------------
(* UseDebugValueDemo: useFetch and FetchExample *)

\* url and enabled are FetchExample's state, data, loading and error useFetch's;
\* data null is << >>, error null is ""; request is the timeout id of the
\* request whose closure variable cancelled is still false
\* the urls the user may have in the API URL input ('/api/users' initially)
FetchUrls == << "/api/users", "/api/posts", "/api" >>

UrlIndex(url) == CHOOSE i \in 1..Len(FetchUrls) : FetchUrls[i] = url

\* useState('/api/users'), useState(true) of FetchExample and data, loading,
\* error of useFetch (null is << >> for data and "" for error); request is
\* the timeout id awaited by the effect run whose cancelled flag is still
\* false, Null when there is no such run
FetchExample_init ==
    [url |-> "/api/users", enabled |-> TRUE, data |-> << >>, loading |-> FALSE,
     error |-> "", request |-> Null]

\* let cancelled = false of the effect run that awaits timeout t has been set
\* to true by its cleanup
useFetch_cancelled(d, t) == t.id # d.request

\* return () => { cancelled = true }
useFetch_cleanup(d) == [d EXCEPT !.request = Null]

\* the effect body for [url, enabled]; the timeout it awaits is never cleared
useFetch_effect(d, ts, nid) ==
    IF ~d.enabled
    THEN Result(d, ts, nid)
    ELSE Result([d EXCEPT !.loading = TRUE, !.error = "", !.request = nid],
                setTimeout(ts, nid, "useFetch.request", UrlIndex(d.url)), nid + 1)

\* re-render of FetchExample from d to d1: cleanup and effect when a dep changed
useFetch_commit(d, d1, ts, nid) ==
    IF d1.url # d.url \/ d1.enabled # d.enabled
    THEN useFetch_effect(useFetch_cleanup(d1), ts, nid)
    ELSE Result(d1, ts, nid)

\* onChange={(e) => setUrl(e.target.value)}
FetchExample_urlOnChange(d, value, ts, nid) ==
    useFetch_commit(d, [d EXCEPT !.url = value], ts, nid)

\* onChange={(e) => setEnabled(e.target.checked)}
FetchExample_enabledOnChange(d, checked, ts, nid) ==
    useFetch_commit(d, [d EXCEPT !.enabled = checked], ts, nid)

\* the awaited timeout t resolves: the rest of fetchData runs
useFetch_response(d, t) ==
    IF useFetch_cancelled(d, t)
    THEN d
    ELSE [d EXCEPT !.data = << FetchUrls[t.arg] >>, !.loading = FALSE]

\* FetchExample mounts: the effect runs once after the first render
FetchExample_mount(ts, nid) == useFetch_effect(FetchExample_init, ts, nid)

----------------------------------------------------------------------------
(* Mounting and unmounting on a re-render of App *)

\* the cleanups React runs when the panel element e is unmounted
Unmount(e, ts) ==
    CASE e = "UseCallbackDemo"         -> UseCallbackDemo_unmount(cbDemo, ts)
      [] e = "UseRefDemo"              -> UseRefDemo_unmount(refDemo, ts)
      [] e = "UseEffectDemo"           ->
            UseEffectDemo_searchCleanup(effSearch, UseEffectDemo_unmount(effDemo, ts))
      [] e = "UseImperativeHandleDemo" ->
            ImperativeTimer_unmount(impTimer, NotificationSystem_unmount(notifications, ts))
      [] e = "UseLayoutEffectDemo"     -> ScrollSync_unmount(scrollSync, ts)
      [] e = "UseDebugValueDemo"       -> useTimer_unmount(dbgTimer, ts)
      [] OTHER                         -> ts

\* the state initializers and mount effects that register timers when the
\* panel element e is mounted
Mount(e, ts, nid) ==
    CASE e = "UseReducerDemo" ->
            UseReducerDemo_timerInitializer(UseReducerDemo_timerInit, ts, nid)
      [] OTHER -> Result(<< >>, ts, nid)

\* what the browser still holds for an unmounted instance
Orphan(ts) == {[t EXCEPT !.live = FALSE] : t \in ts}

Event(kind, hook, stale) == [kind |-> kind, hook |-> hook, stale |-> stale]

\* a fresh panel instance
FreshPanels ==
    /\ cbDemo' = UseCallbackDemo_init
    /\ refDemo' = UseRefDemo_init
    /\ effDemo' = UseEffectDemo_init
    /\ notifications' = << >>
    /\ redTimer' = UseReducerDemo_timerInit
    /\ redForm' = UseReducerDemo_formInit
    /\ impTimer' = ImperativeTimer_init
    /\ scrollSync' = ScrollSync_init
    /\ effSearch' = UseEffectDemo_searchInit
    /\ dbgTimer' = useTimer_init(TimerDuration)
    /\ dbgFetch' = FetchExample_init

\* App re-renders with navigation state nav: a different element type in
\* <main> unmounts the old panel and mounts a new instance of the new one
Render(nav) ==
    /\ selectedHook' = nav.selectedHook
    /\ sidebarOpen' = nav.sidebarOpen
    /\ main' = renderHookDemo(nav.selectedHook)
    /\ IF renderHookDemo(nav.selectedHook) # main
       THEN LET m == Mount(renderHookDemo(nav.selectedHook),
                           Orphan(Unmount(main, timers)), nextTimerId)
            IN  /\ timers' = m.timers
                /\ nextTimerId' = m.nextTimerId
                /\ FreshPanels
       ELSE /\ UNCHANGED <<timers, nextTimerId>>
            /\ UNCHANGED panelVars

----------------------------------------------------------------------------
(* Shell and Selector events *)

\* the application before its first event
AppInit ==
    /\ selectedHook = InitialSelectedHook
    /\ sidebarOpen = InitialSidebarOpen
    /\ main = renderHookDemo(InitialSelectedHook)
    /\ calls = << >>
    /\ lastEvent = Event("mount", "", FALSE)
    /\ timers = {}
    /\ nextTimerId = 1
    /\ cbDemo = UseCallbackDemo_init
    /\ refDemo = UseRefDemo_init
    /\ effDemo = UseEffectDemo_init
    /\ notifications = << >>
    /\ redTimer = UseReducerDemo_timerInit
    /\ redForm = UseReducerDemo_formInit
    /\ impTimer = ImperativeTimer_init
    /\ scrollSync = ScrollSync_init
    /\ effSearch = UseEffectDemo_searchInit
    /\ dbgTimer = useTimer_init(TimerDuration)
    /\ dbgFetch = FetchExample_init

RenderIdle ==
    /\ rArg = InitialSelectedHook
    /\ rOut = renderHookDemo(InitialSelectedHook)
    /\ rPrevArg = InitialSelectedHook
    /\ rPrevOut = renderHookDemo(InitialSelectedHook)

StorageIdle ==
    lsCall = StorageCall([present |-> FALSE, text |-> << >>],
                         [type |-> "string", text |-> << >>])

CategoryIdle == catCall = [category |-> "", style |-> "", prevCategory |-> ""]

ReducerIdle == pureCall = [reducer |-> "none"]

Init ==
    /\ AppInit
    /\ RenderIdle
    /\ StorageIdle
    /\ CategoryIdle
    /\ ReducerIdle

\* click on the header's menu button
HeaderToggleClick ==
    /\ calls' = << >>
    /\ lastEvent' = Event("headerToggle", "", FALSE)
    /\ Render(headerToggle(Nav))
    /\ UNCHANGED harnessVars

\* click on the row of catalog entry i
RowClick ==
    \E i \in 1..Len(hooks) :
        /\ calls' = rowOnClick(hooks[i].id)
        /\ lastEvent' = Event("rowClick", hooks[i].id, FALSE)
        /\ Render(ApplyCalls(rowOnClick(hooks[i].id), Nav))
        /\ UNCHANGED harnessVars

\* click on the overlay
OverlayClick ==
    /\ overlayPresent(sidebarOpen)
    /\ calls' = overlayOnClick
    /\ lastEvent' = Event("overlayClick", "", FALSE)
    /\ Render(ApplyCalls(overlayOnClick, Nav))
    /\ UNCHANGED harnessVars

\* click on the Sidebar header's X button
CloseButtonClick ==
    /\ calls' = closeButtonOnClick
    /\ lastEvent' = Event("closeClick", "", FALSE)
    /\ Render(ApplyCalls(closeButtonOnClick, Nav))
    /\ UNCHANGED harnessVars

----------------------------------------------------------------------------
(* Panel events *)

PanelEvent(kind) ==
    /\ lastEvent' = Event(kind, "", FALSE)
    /\ UNCHANGED <<selectedHook, sidebarOpen, main, calls>>
    /\ UNCHANGED harnessVars

CanSetTimer == nextTimerId <= MaxTimerId

CbStartStopClick ==
    /\ main = "UseCallbackDemo"
    /\ cbDemo.isRunning \/ CanSetTimer
    /\ LET r == UseCallbackDemo_startStopOnClick(cbDemo, timers, nextTimerId)
       IN  /\ cbDemo' = r.demo
           /\ timers' = r.timers
           /\ nextTimerId' = r.nextTimerId
    /\ PanelEvent("cbStartStopClick")
    /\ UNCHANGED panelsExceptCb

CbResetClick ==
    /\ main = "UseCallbackDemo"
    /\ LET r == UseCallbackDemo_resetTimer(cbDemo, timers, nextTimerId)
       IN  /\ cbDemo' = r.demo
           /\ timers' = r.timers
           /\ nextTimerId' = r.nextTimerId
    /\ PanelEvent("cbResetClick")
    /\ UNCHANGED panelsExceptCb

\* the interval callback: setSeconds(prev => prev + 1)
CbTimerTick ==
    /\ \E t \in timers : t.live /\ t.tag = "UseCallbackDemo.timer"
    /\ cbDemo.seconds < MaxSeconds
    /\ cbDemo' = [cbDemo EXCEPT !.seconds = @ + 1]
    /\ PanelEvent("timerFire")
    /\ UNCHANGED <<timers, nextTimerId>>
    /\ UNCHANGED panelsExceptCb

\* Start: disabled={isRunning}
RefStartClick ==
    /\ main = "UseRefDemo"
    /\ ~refDemo.isRunning
    /\ CanSetTimer
    /\ LET r == UseRefDemo_startTimer(refDemo, timers, nextTimerId)
       IN  /\ refDemo' = r.demo
           /\ timers' = r.timers
           /\ nextTimerId' = r.nextTimerId
    /\ PanelEvent("refStartClick")
    /\ UNCHANGED panelsExceptRef

\* Stop: disabled={!isRunning}
RefStopClick ==
    /\ main = "UseRefDemo"
    /\ refDemo.isRunning
    /\ LET r == UseRefDemo_stopTimer(refDemo, timers, nextTimerId)
       IN  /\ refDemo' = r.demo
           /\ timers' = r.timers
           /\ nextTimerId' = r.nextTimerId
    /\ PanelEvent("refStopClick")
    /\ UNCHANGED panelsExceptRef

RefResetClick ==
    /\ main = "UseRefDemo"
    /\ LET r == UseRefDemo_resetTimer(refDemo, timers, nextTimerId)
       IN  /\ refDemo' = r.demo
           /\ timers' = r.timers
           /\ nextTimerId' = r.nextTimerId
    /\ PanelEvent("refResetClick")
    /\ UNCHANGED panelsExceptRef

RefTimerTick ==
    /\ \E t \in timers : t.live /\ t.tag = "UseRefDemo.timer"
    /\ refDemo.seconds < MaxSeconds
    /\ refDemo' = [refDemo EXCEPT !.seconds = @ + 1]
    /\ PanelEvent("timerFire")
    /\ UNCHANGED <<timers, nextTimerId>>
    /\ UNCHANGED panelsExceptRef

EffToggleClick ==
    /\ main = "UseEffectDemo"
    /\ effDemo.isTimerRunning \/ CanSetTimer
    /\ LET r == UseEffectDemo_toggleOnClick(effDemo, timers, nextTimerId)
       IN  /\ effDemo' = r.demo
           /\ timers' = r.timers
           /\ nextTimerId' = r.nextTimerId
    /\ PanelEvent("effToggleClick")
    /\ UNCHANGED panelsExceptEff

EffResetClick ==
    /\ main = "UseEffectDemo"
    /\ LET r == UseEffectDemo_resetOnClick(effDemo, timers, nextTimerId)
       IN  /\ effDemo' = r.demo
           /\ timers' = r.timers
           /\ nextTimerId' = r.nextTimerId
    /\ PanelEvent("effResetClick")
    /\ UNCHANGED panelsExceptEff

\* the interval callback: setTimer(prev => prev + 1)
EffTimerTick ==
    /\ \E t \in timers : t.live /\ t.tag = "UseEffectDemo.timer"
    /\ effDemo.timer < MaxSeconds
    /\ effDemo' = [effDemo EXCEPT !.timer = @ + 1]
    /\ PanelEvent("timerFire")
    /\ UNCHANGED <<timers, nextTimerId>>
    /\ UNCHANGED panelsExceptEff

NotificationShowClick ==
    /\ main = "UseImperativeHandleDemo"
    /\ CanSetTimer
    /\ Len(notifications) < MaxNotifications
    /\ \E id \in DateNow(notifications, timers, lastEvent.kind = "notificationShowClick") :
          LET r == NotificationSystem_show(notifications, timers, nextTimerId, id)
          IN  /\ notifications' = r.demo
              /\ timers' = r.timers
              /\ nextTimerId' = r.nextTimerId
    /\ PanelEvent("notificationShowClick")
    /\ UNCHANGED panelsExceptNotif

NotificationHideClick ==
    /\ main = "UseImperativeHandleDemo"
    /\ notifications' = NotificationSystem_hide(notifications)
    /\ PanelEvent("notificationHideClick")
    /\ UNCHANGED <<timers, nextTimerId>>
    /\ UNCHANGED panelsExceptNotif

NotificationClearClick ==
    /\ main = "UseImperativeHandleDemo"
    /\ notifications' = NotificationSystem_clear(notifications)
    /\ PanelEvent("notificationClearClick")
    /\ UNCHANGED <<timers, nextTimerId>>
    /\ UNCHANGED panelsExceptNotif

\* a notification's timeout fires while its NotificationSystem is mounted
NotificationAutoHide ==
    \E t \in timers :
        /\ t.live /\ t.tag = "NotificationSystem.autoHide"
        /\ notifications' = NotificationSystem_autoHide(notifications, t.arg)
        /\ timers' = timers \ {t}
        /\ PanelEvent("timerFire")
        /\ UNCHANGED nextTimerId
        /\ UNCHANGED panelsExceptNotif

RedTimerToggleClick ==
    /\ main = "UseReducerDemo"
    /\ LET r == UseReducerDemo_timerToggleOnClick(redTimer, timers, nextTimerId)
       IN  /\ redTimer' = r.demo
           /\ timers' = r.timers
           /\ nextTimerId' = r.nextTimerId
    /\ PanelEvent("redTimerToggleClick")
    /\ UNCHANGED panelsExceptRedTimer

RedTimerStopClick ==
    /\ main = "UseReducerDemo"
    /\ LET r == UseReducerDemo_timerStopOnClick(redTimer, timers, nextTimerId)
       IN  /\ redTimer' = r.demo
           /\ timers' = r.timers
           /\ nextTimerId' = r.nextTimerId
    /\ PanelEvent("redTimerStopClick")
    /\ UNCHANGED panelsExceptRedTimer

\* what the user types into the form's inputs
NameInputs == {<< >>, << "A" >>}

EmailInputs ==
    {<< >>, << "a", "@", "b", ".", "c" >>, << "a", "@", "b" >>, << "a", " ", "@", "b", ".", "c" >>}

PhoneInputs == {<< >>, << "5" >>}

FieldInputs(field) ==
    CASE field = "name" -> NameInputs
      [] field = "email" -> EmailInputs
      [] field = "phone" -> PhoneInputs

RedFormChange ==
    /\ main = "UseReducerDemo"
    /\ \E field \in {"name", "email", "phone"} :
          \E value \in FieldInputs(field) :
              /\ value # redForm.values[field]
              /\ redForm' = UseReducerDemo_fieldOnChange(redForm, field, value)
    /\ PanelEvent("redFormChange")
    /\ UNCHANGED <<timers, nextTimerId>>
    /\ UNCHANGED panelsExceptRedForm

\* onBlur={() => formDispatch({ type: 'TOUCH_FIELD', payload: field })}
RedFormBlur ==
    /\ main = "UseReducerDemo"
    /\ \E field \in {"name", "email", "phone"} :
          redForm' = formReducer(redForm, Action("TOUCH_FIELD", field))
    /\ PanelEvent("redFormBlur")
    /\ UNCHANGED <<timers, nextTimerId>>
    /\ UNCHANGED panelsExceptRedForm

\* the Submit button is disabled while formState.isSubmitting
RedFormSubmitClick ==
    /\ main = "UseReducerDemo"
    /\ ~redForm.isSubmitting
    /\ ~redForm.isValid \/ CanSetTimer
    /\ LET r == handleFormSubmit(redForm, timers, nextTimerId)
       IN  /\ redForm' = r.demo
           /\ timers' = r.timers
           /\ nextTimerId' = r.nextTimerId
    /\ PanelEvent("redFormSubmitClick")
    /\ UNCHANGED panelsExceptRedForm

RedFormResetClick ==
    /\ main = "UseReducerDemo"
    /\ redForm' = formReducer(redForm, Action("RESET_FORM", 0))
    /\ PanelEvent("redFormResetClick")
    /\ UNCHANGED <<timers, nextTimerId>>
    /\ UNCHANGED panelsExceptRedForm

RedFormValidateClick ==
    /\ main = "UseReducerDemo"
    /\ redForm' = formReducer(redForm, Action("VALIDATE_FORM", 0))
    /\ PanelEvent("redFormValidateClick")
    /\ UNCHANGED <<timers, nextTimerId>>
    /\ UNCHANGED panelsExceptRedForm

\* the 2000 ms timeout of the simulated API call resolves
RedFormSubmitDone ==
    \E t \in timers :
        /\ t.live /\ t.tag = "UseReducerDemo.submit"
        /\ redForm' = handleFormSubmit_resume(redForm)
        /\ timers' = timers \ {t}
        /\ PanelEvent("redFormSubmitDone")
        /\ UNCHANGED nextTimerId
        /\ UNCHANGED panelsExceptRedForm

\* the timer card of the useImperativeHandle panel; a handler that leads to a
\* new interval needs a free timer id
ImpTimerStep(r, kind) ==
    /\ r.nextTimerId = nextTimerId \/ CanSetTimer
    /\ impTimer' = r.demo
    /\ timers' = r.timers
    /\ nextTimerId' = r.nextTimerId
    /\ PanelEvent(kind)
    /\ UNCHANGED panelsExceptImp

ImpTimerStartClick ==
    /\ main = "UseImperativeHandleDemo"
    /\ ImpTimerStep(ImperativeTimer_start(impTimer, timers, nextTimerId), "impStartClick")

ImpTimerPauseClick ==
    /\ main = "UseImperativeHandleDemo"
    /\ ImpTimerStep(ImperativeTimer_pause(impTimer, timers, nextTimerId), "impPauseClick")

ImpTimerResetClick ==
    /\ main = "UseImperativeHandleDemo"
    /\ ImpTimerStep(ImperativeTimer_reset(impTimer, timers, nextTimerId), "impResetClick")

\* what the user types into the seconds input
TimerSecondsInputs ==
    {<< "6", "0" >>, << "2" >>, << "0" >>, << "-", "5" >>, << "x" >>}

\* onChange={(e) => setTimerSeconds(e.target.value)}
ImpTimerSecondsChange ==
    /\ main = "UseImperativeHandleDemo"
    /\ \E s \in TimerSecondsInputs :
          /\ s # impTimer.timerSeconds
          /\ ImpTimerStep(Result([impTimer EXCEPT !.timerSeconds = s], timers, nextTimerId),
                          "impSecondsChange")

ImpTimerSetClick ==
    /\ main = "UseImperativeHandleDemo"
    /\ ImpTimerStep(handleSetTimer(impTimer, timers, nextTimerId), "impSetClick")

ImpTimerAddClick ==
    /\ main = "UseImperativeHandleDemo"
    /\ impTimer.timeRemaining + 10 <= MaxTimeRemaining
    /\ ImpTimerStep(ImperativeTimer_addTime(impTimer, 10, timers, nextTimerId), "impAddClick")

ImpTimerSubtractClick ==
    /\ main = "UseImperativeHandleDemo"
    /\ ImpTimerStep(ImperativeTimer_addTime(impTimer, 0 - 10, timers, nextTimerId),
                    "impSubtractClick")

ImpTimerTick ==
    /\ main = "UseImperativeHandleDemo"
    /\ \E t \in timers : t.live /\ t.tag = "ImperativeTimer.tick"
    /\ ImpTimerStep(ImperativeTimer_tick(impTimer, timers, nextTimerId), "timerFire")

\* the user opens the tab Positioning: ScrollSync mounts
ScrollSyncTabOpen ==
    /\ main = "UseLayoutEffectDemo"
    /\ ~scrollSync.mounted
    /\ CanSetTimer
    /\ LET r == ScrollSync_mount(scrollSync, timers, nextTimerId)
       IN  /\ scrollSync' = r.demo
           /\ timers' = r.timers
           /\ nextTimerId' = r.nextTimerId
    /\ PanelEvent("scrollTabOpen")
    /\ UNCHANGED panelsExceptScroll

\* the user opens another tab: ScrollSync unmounts and loses its state
ScrollSyncTabLeave ==
    /\ main = "UseLayoutEffectDemo"
    /\ scrollSync.mounted
    /\ timers' = ScrollSync_unmount(scrollSync, timers)
    /\ scrollSync' = ScrollSync_init
    /\ PanelEvent("scrollTabLeave")
    /\ UNCHANGED nextTimerId
    /\ UNCHANGED panelsExceptScroll

\* where the user scrolls the container to, in percent
ScrollPositions == {0, 100}

\* a scroll event on the container
ScrollSyncScroll ==
    /\ main = "UseLayoutEffectDemo"
    /\ scrollSync.mounted
    /\ \E percentage \in ScrollPositions :
          /\ percentage # scrollSync.scrollPosition
          /\ scrollSync' = ScrollSync_handleScroll(scrollSync, percentage)
    /\ PanelEvent("scroll")
    /\ UNCHANGED <<timers, nextTimerId>>
    /\ UNCHANGED panelsExceptScroll

\* the 150 ms timeout set at mount fires
ScrollSyncTimeout ==
    /\ main = "UseLayoutEffectDemo"
    /\ \E t \in timers :
          /\ t.live /\ t.tag = "ScrollSync.reset"
          /\ timers' = timers \ {t}
    /\ scrollSync' = ScrollSync_timeout(scrollSync)
    /\ PanelEvent("timerFire")
    /\ UNCHANGED nextTimerId
    /\ UNCHANGED panelsExceptScroll

\* TimerExample; Start is taken only while the timeouts the countdown still
\* needs are within MaxCountdownTimerId
DbgTimerStartClick ==
    /\ main = "UseDebugValueDemo"
    /\ ~TimerExample_startDisabled(dbgTimer)
    /\ nextTimerId + dbgTimer.timeLeft - 1 <= MaxCountdownTimerId
    /\ LET r == useTimer_start(dbgTimer, timers, nextTimerId)
       IN  /\ dbgTimer' = r.demo
           /\ timers' = r.timers
           /\ nextTimerId' = r.nextTimerId
    /\ PanelEvent("dbgStartClick")
    /\ UNCHANGED panelsExceptDbgTimer

DbgTimerPauseClick ==
    /\ main = "UseDebugValueDemo"
    /\ ~TimerExample_pauseDisabled(dbgTimer)
    /\ LET r == useTimer_pause(dbgTimer, timers, nextTimerId)
       IN  /\ dbgTimer' = r.demo
           /\ timers' = r.timers
           /\ nextTimerId' = r.nextTimerId
    /\ PanelEvent("dbgPauseClick")
    /\ UNCHANGED panelsExceptDbgTimer

DbgTimerResetClick ==
    /\ main = "UseDebugValueDemo"
    /\ LET r == useTimer_reset(dbgTimer, TimerDuration, timers, nextTimerId)
       IN  /\ dbgTimer' = r.demo
           /\ timers' = r.timers
           /\ nextTimerId' = r.nextTimerId
    /\ PanelEvent("dbgResetClick")
    /\ UNCHANGED panelsExceptDbgTimer

\* the pending 1000 ms timeout fires
DbgTimerTick ==
    /\ main = "UseDebugValueDemo"
    /\ \E t \in timers : t.live /\ t.tag = "useTimer.timeout" /\ t.id = dbgTimer.timer
    /\ LET r == useTimer_timeout(dbgTimer, timers, nextTimerId)
       IN  /\ dbgTimer' = r.demo
           /\ timers' = r.timers
           /\ nextTimerId' = r.nextTimerId
    /\ PanelEvent("timerFire")
    /\ UNCHANGED panelsExceptDbgTimer

\* what the user has in the search box after an edit
SearchInputs == {<< >>, << "r", "e" >>, << "E", "f", "f" >>, << "z" >>}

EffSearchChange ==
    /\ main = "UseEffectDemo"
    /\ \E value \in SearchInputs :
          /\ value # effSearch.searchTerm
          /\ value = << >> \/ CanSetTimer
          /\ LET r == UseEffectDemo_searchOnChange(effSearch, value, timers, nextTimerId)
             IN  /\ effSearch' = r.demo
                 /\ timers' = r.timers
                 /\ nextTimerId' = r.nextTimerId
    /\ PanelEvent("effSearchChange")
    /\ UNCHANGED panelsExceptSearch

\* the pending debounce timeout fires
EffSearchTimeout ==
    /\ main = "UseEffectDemo"
    /\ \E t \in timers :
          /\ t.live /\ t.tag = "UseEffectDemo.search"
          /\ timers' = timers \ {t}
    /\ effSearch' = UseEffectDemo_searchTimeout(effSearch)
    /\ PanelEvent("timerFire")
    /\ UNCHANGED nextTimerId
    /\ UNCHANGED panelsExceptSearch

DbgFetchUrlChange ==
    /\ main = "UseDebugValueDemo"
    /\ \E i \in 1..Len(FetchUrls) :
          /\ FetchUrls[i] # dbgFetch.url
          /\ ~dbgFetch.enabled \/ CanSetTimer
          /\ LET r == FetchExample_urlOnChange(dbgFetch, FetchUrls[i], timers, nextTimerId)
             IN  /\ dbgFetch' = r.demo
                 /\ timers' = r.timers
                 /\ nextTimerId' = r.nextTimerId
    /\ PanelEvent("dbgUrlChange")
    /\ UNCHANGED panelsExceptDbgFetch

DbgFetchEnabledChange ==
    /\ main = "UseDebugValueDemo"
    /\ dbgFetch.enabled \/ CanSetTimer
    /\ LET r == FetchExample_enabledOnChange(dbgFetch, ~dbgFetch.enabled, timers, nextTimerId)
       IN  /\ dbgFetch' = r.demo
           /\ timers' = r.timers
           /\ nextTimerId' = r.nextTimerId
    /\ PanelEvent("dbgEnabledChange")
    /\ UNCHANGED panelsExceptDbgFetch

\* the 1000 ms timeout of a simulated request fires
DbgFetchResponse ==
    /\ main = "UseDebugValueDemo"
    /\ \E t \in timers :
          /\ t.live /\ t.tag = "useFetch.request"
          /\ timers' = timers \ {t}
          /\ dbgFetch' = useFetch_response(dbgFetch, t)
    /\ PanelEvent("timerFire")
    /\ UNCHANGED nextTimerId
    /\ UNCHANGED panelsExceptDbgFetch

\* a callback fires whose component instance has been unmounted: its state
\* updates go to the unmounted instance; a timeout is spent, an interval stays
OrphanTimerFire ==
    \E t \in timers :
        /\ ~t.live
        /\ timers' = IF t.kind = "timeout" THEN timers \ {t} ELSE timers
        /\ lastEvent' = Event("timerFire", "", TRUE)
        /\ UNCHANGED <<selectedHook, sidebarOpen, main, calls>>
        /\ UNCHANGED nextTimerId
        /\ UNCHANGED panelVars
        /\ UNCHANGED harnessVars

Next ==
    \/ HeaderToggleClick
    \/ RowClick
    \/ OverlayClick
    \/ CloseButtonClick
    \/ CbStartStopClick
    \/ CbResetClick
    \/ CbTimerTick
    \/ RefStartClick
    \/ RefStopClick
    \/ RefResetClick
    \/ RefTimerTick
    \/ EffToggleClick
    \/ EffResetClick
    \/ EffTimerTick
    \/ NotificationShowClick
    \/ NotificationHideClick
    \/ NotificationClearClick
    \/ NotificationAutoHide
    \/ RedTimerToggleClick
    \/ RedTimerStopClick
    \/ EffSearchChange
    \/ EffSearchTimeout
    \/ ScrollSyncTabOpen
    \/ ScrollSyncTabLeave
    \/ ScrollSyncScroll
    \/ ScrollSyncTimeout
    \/ OrphanTimerFire

Spec == Init /\ [][Next]_vars

----------------------------------------------------------------------------
(* renderHookDemo as a function of its input *)

RenderInputs == HookType \cup UnknownIds

InitRender ==
    /\ AppInit
    /\ StorageIdle
    /\ CategoryIdle
    /\ ReducerIdle
    /\ rArg \in RenderInputs
    /\ rOut = renderHookDemo(rArg)
    /\ rPrevArg = rArg
    /\ rPrevOut = rOut

RenderCall ==
    \E id \in RenderInputs :
        /\ rPrevArg' = rArg
        /\ rPrevOut' = rOut
        /\ rArg' = id
        /\ rOut' = renderHookDemo(id)
        /\ UNCHANGED appVars
        /\ UNCHANGED <<lsCall, catCall, pureCall>>

NextRender == RenderCall

SpecRender == InitRender /\ [][NextRender]_vars


----------------------------------------------------------------------------
(* getCategoryColor applied to category strings *)

CategoryInputs ==
    {"Basic", "Advanced", "Performance", "", "basic", "BASIC", "Basic ",
     "Expert", "advanced", "Performance2", "Other"}

InitCategory ==
    /\ AppInit
    /\ RenderIdle
    /\ StorageIdle
    /\ ReducerIdle
    /\ \E c \in CategoryInputs :
          catCall = [category |-> c, style |-> getCategoryColor(c), prevCategory |-> c]

CategoryCall ==
    \E c \in CategoryInputs :
        /\ catCall' = [category |-> c,
                       style |-> getCategoryColor(c),
                       prevCategory |-> catCall.category]
        /\ UNCHANGED appVars
        /\ UNCHANGED <<rArg, rOut, rPrevArg, rPrevOut, lsCall, pureCall>>

NextCategory == CategoryCall

SpecCategory == InitCategory /\ [][NextCategory]_vars

----------------------------------------------------------------------------
(* useLocalStorage mounted on a stored item *)

InitStorage ==
    /\ AppInit
    /\ RenderIdle
    /\ CategoryIdle
    /\ ReducerIdle
    /\ \E v \in InitialValues :
          lsCall = StorageCall([present |-> FALSE, text |-> << >>], v)

\* a component using the hook mounts: the initializer runs once
StorageMount ==
    \E item \in StoredItems, v \in InitialValues :
        /\ lsCall' = StorageCall(item, v)
        /\ UNCHANGED appVars
        /\ UNCHANGED <<rArg, rOut, rPrevArg, rPrevOut, catCall, pureCall>>

NextStorage == StorageMount

SpecStorage == InitStorage /\ [][NextStorage]_vars

----------------------------------------------------------------------------
(* One panel on its own: the application right after the Sidebar row id   *)
(* was clicked for the first time, and from there the events of one card  *)
(* of that panel only.                                                     *)

\* the state after a click on row id apart from the timer table and the
\* fetch card
PanelShown(id) ==
    /\ selectedHook = id
    /\ sidebarOpen = FALSE
    /\ main = renderHookDemo(id)
    /\ calls = rowOnClick(id)
    /\ lastEvent = Event("rowClick", id, FALSE)
    /\ cbDemo = UseCallbackDemo_init
    /\ refDemo = UseRefDemo_init
    /\ effDemo = UseEffectDemo_init
    /\ notifications = << >>
    /\ redTimer = UseReducerDemo_timerInit
    /\ redForm = UseReducerDemo_formInit
    /\ impTimer = ImperativeTimer_init
    /\ scrollSync = ScrollSync_init
    /\ effSearch = UseEffectDemo_searchInit
    /\ dbgTimer = useTimer_init(TimerDuration)
    /\ RenderIdle
    /\ StorageIdle
    /\ CategoryIdle
    /\ ReducerIdle

PanelSelected(id) ==
    /\ PanelShown(id)
    /\ timers = {}
    /\ nextTimerId = 1
    /\ dbgFetch = FetchExample_init

\* the form card of the useReducer panel
InitForm == PanelSelected("useReducer")

NextForm ==
    \/ RedFormChange
    \/ RedFormBlur
    \/ RedFormSubmitClick
    \/ RedFormResetClick
    \/ RedFormValidateClick
    \/ RedFormSubmitDone

SpecForm == InitForm /\ [][NextForm]_vars

----------------------------------------------------------------------------
(* The five reducers of UseReducerDemo, each applied twice to one state    *)
(* and one action, at the clock readings now1 and now2.                    *)

MaxClock == 2

Clock == 1..MaxClock

CounterStates == {[count |-> c, step |-> s] : c \in {0, 3}, s \in {1, 2}}

CounterActions ==
    {Action(t, 0) : t \in {"INCREMENT", "DECREMENT", "RESET"}}
        \cup {Action(t, 5) : t \in {"SET_STEP", "SET_COUNT"}}

TimerStates == {[seconds |-> s, isRunning |-> r, interval |-> 1000] : s \in {0, 7}, r \in BOOLEAN}

TimerActions ==
    {Action(t, 0) : t \in {"START", "PAUSE", "STOP", "TICK"}} \cup {Action("SET_INTERVAL", 500)}

InitialTodos ==
    << [id |-> "1", text |-> "Learn useReducer", completed |-> FALSE, priority |-> "high"],
       [id |-> "2", text |-> "Build todo app", completed |-> TRUE, priority |-> "medium"] >>

TodoStates ==
    {[todos |-> t, filter |-> "all", editingId |-> e] :
        t \in {<< >>, InitialTodos}, e \in {"", "1"}}

TodoActions ==
    {Action("ADD_TODO", [text |-> "Write tests", priority |-> "medium"]),
     Action("TOGGLE_TODO", "1"), Action("DELETE_TODO", "2"), Action("EDIT_TODO", "2"),
     Action("UPDATE_TODO", [id |-> "1", text |-> "Learn reducers"]),
     Action("CANCEL_EDIT", 0), Action("SET_FILTER", "active"),
     Action("CLEAR_COMPLETED", 0),
     Action("SET_PRIORITY", [id |-> "2", priority |-> "low"])}

CartStates ==
    {[items |-> i, discount |-> d, shipping |-> 0, tax |-> 0] :
        i \in {<< >>, << [id |-> "1", name |-> "React Book", price |-> 2999, quantity |-> 2] >>},
        d \in {0, 10}}

CartActions ==
    {Action("ADD_ITEM", [id |-> "1", name |-> "React Book", price |-> 2999]),
     Action("ADD_ITEM", [id |-> "2", name |-> "TypeScript Guide", price |-> 3999]),
     Action("REMOVE_ITEM", "1"),
     Action("UPDATE_QUANTITY", [id |-> "1", quantity |-> 0]),
     Action("UPDATE_QUANTITY", [id |-> "1", quantity |-> 3]),
     Action("APPLY_DISCOUNT", 10), Action("SET_SHIPPING", 500),
     Action("CLEAR_CART", 0), Action("CALCULATE_TAX", 0)}

FormStates ==
    {UseReducerDemo_formInit,
     [UseReducerDemo_formInit EXCEPT
         !.values = [name |-> << "A" >>, email |-> << "a", "@", "b", ".", "c" >>,
                     phone |-> << "5" >>]],
     [UseReducerDemo_formInit EXCEPT
         !.values = [name |-> << "A" >>, email |-> << "a", "@", "b" >>, phone |-> << >>],
         !.errors = [name |-> "", email |-> "Email is invalid", phone |-> "Phone is required"],
         !.isSubmitting = TRUE]}

FormActions ==
    {Action("SET_FIELD", [field |-> "name", value |-> << "B" >>]),
     Action("SET_ERROR", [field |-> "name", error |-> "Name is taken"]),
     Action("CLEAR_ERROR", "email"), Action("TOUCH_FIELD", "phone"),
     Action("SET_SUBMITTING", TRUE), Action("SET_SUBMITTING", FALSE),
     Action("VALIDATE_FORM", 0), Action("RESET_FORM", 0)}

Reducers == {"counterReducer", "timerReducer", "todoReducer", "cartReducer", "formReducer"}

ReducerStates(reducer) ==
    CASE reducer = "counterReducer" -> CounterStates
      [] reducer = "timerReducer" -> TimerStates
      [] reducer = "todoReducer" -> TodoStates
      [] reducer = "cartReducer" -> CartStates
      [] reducer = "formReducer" -> FormStates

ReducerActions(reducer) ==
    CASE reducer = "counterReducer" -> CounterActions
      [] reducer = "timerReducer" -> TimerActions
      [] reducer = "todoReducer" -> TodoActions
      [] reducer = "cartReducer" -> CartActions
      [] reducer = "formReducer" -> FormActions

\* the reducer called at clock reading now
Reduce(reducer, state, action, now) ==
    CASE reducer = "counterReducer" -> counterReducer(state, action)
      [] reducer = "timerReducer" -> timerReducer(state, action)
      [] reducer = "todoReducer" -> todoReducer(state, action, now)
      [] reducer = "cartReducer" -> cartReducer(state, action)
      [] reducer = "formReducer" -> formReducer(state, action)

ReducerCall(reducer, state, action, now1, now2) ==
    [reducer |-> reducer, state |-> state, action |-> action,
     now1 |-> now1, now2 |-> now2,
     out1 |-> Reduce(reducer, state, action, now1),
     out2 |-> Reduce(reducer, state, action, now2)]

InitReducer ==
    /\ AppInit
    /\ RenderIdle
    /\ StorageIdle
    /\ CategoryIdle
    /\ ReducerIdle

ReducerApply ==
    \E reducer \in Reducers :
        \E state \in ReducerStates(reducer), action \in ReducerActions(reducer) :
            \E now1 \in Clock, now2 \in Clock :
                /\ pureCall' = ReducerCall(reducer, state, action, now1, now2)
                /\ UNCHANGED appVars
                /\ UNCHANGED <<rArg, rOut, rPrevArg, rPrevOut, lsCall, catCall>>

NextReducer == ReducerApply

SpecReducer == InitReducer /\ [][NextReducer]_vars

\* the timer card of the useImperativeHandle panel (tab Advanced, where
\* ImperativeTimer mounts in its initial state and registers nothing)
InitImperativeTimer == PanelSelected("useImperativeHandle")

NextImperativeTimer ==
    \/ ImpTimerStartClick
    \/ ImpTimerPauseClick
    \/ ImpTimerResetClick
    \/ ImpTimerSecondsChange
    \/ ImpTimerSetClick
    \/ ImpTimerAddClick
    \/ ImpTimerSubtractClick
    \/ ImpTimerTick

SpecImperativeTimer == InitImperativeTimer /\ [][NextImperativeTimer]_vars

\* FetchExample of the useDebugValue panel (tab Basic, the default tab): the
\* state after the click on the row, where the effect of useFetch has started
\* the first request
InitFetch ==
    /\ PanelShown("useDebugValue")
    /\ LET r == FetchExample_mount({}, 1)
       IN  /\ dbgFetch = r.demo
           /\ timers = r.timers
           /\ nextTimerId = r.nextTimerId

NextFetch ==
    \/ DbgFetchUrlChange
    \/ DbgFetchEnabledChange
    \/ DbgFetchResponse

SpecFetch == InitFetch /\ [][NextFetch]_vars

\* TimerExample of the useDebugValue panel (tab Formatted, where it mounts in
\* its initial state and registers nothing)
InitUseTimer == PanelSelected("useDebugValue")

NextUseTimer ==
    \/ DbgTimerStartClick
    \/ DbgTimerPauseClick
    \/ DbgTimerResetClick
    \/ DbgTimerTick

\* the browser fires a timeout that stays pending
SpecUseTimer == InitUseTimer /\ [][NextUseTimer]_vars /\ WF_vars(DbgTimerTick)

----------------------------------------------------------------------------
(* Properties *)

CatalogIds == {hooks[i].id : i \in 1..Len(hooks)}

\* the demo component that belongs to each catalog id (App.tsx imports,
\* README "Complete Hook Coverage")
OwnPanel(id) ==
    CASE id = "useState"            -> "UseStateDemo"
      [] id = "useEffect"           -> "UseEffectDemo"
      [] id = "useContext"          -> "UseContextDemo"
      [] id = "useReducer"          -> "UseReducerDemo"
      [] id = "useCallback"         -> "UseCallbackDemo"
      [] id = "useMemo"             -> "UseMemoDemo"
      [] id = "useRef"              -> "UseRefDemo"
      [] id = "useImperativeHandle" -> "UseImperativeHandleDemo"
      [] id = "useLayoutEffect"     -> "UseLayoutEffectDemo"
      [] id = "useDebugValue"       -> "UseDebugValueDemo"

SidebarCloseKinds == {"overlayClick", "closeClick"}

PanelEventKinds ==
    {"dbgUrlChange", "dbgEnabledChange",
     "effSearchChange",
     "dbgStartClick", "dbgPauseClick", "dbgResetClick",
     "scrollTabOpen", "scrollTabLeave", "scroll",
     "impStartClick", "impPauseClick", "impResetClick", "impSecondsChange", "impSetClick",
     "impAddClick", "impSubtractClick",
     "redTimerToggleClick", "redTimerStopClick", "redFormChange", "redFormBlur", "redFormSubmitClick",
     "redFormResetClick", "redFormValidateClick", "redFormSubmitDone",
     "cbStartStopClick", "cbResetClick", "refStartClick", "refStopClick",
     "refResetClick", "effToggleClick", "effResetClick", "notificationShowClick",
     "notificationHideClick", "notificationClearClick", "timerFire"}

LiveIntervals(tag) ==
    {t \in timers : t.live /\ t.kind = "interval" /\ t.tag = tag}

\* C1: a click on the Sidebar row of id X invokes the selection callback once
\* with X and then the close callback once, in that order, and nothing else.
C1_RowClickCallbacks ==
    lastEvent.kind = "rowClick" =>
        calls = << Call("onHookSelect", lastEvent.hook), Call("onClose", "") >>

C1_Witness ==
    /\ lastEvent.kind = "rowClick"
    /\ lastEvent.hook = "useReducer"
    /\ Len(calls) = 2

\* C2: the state rendered after a row click on X has selected = X, the
\* sidebar closed and X's panel mounted, whatever the state before the click.
C2_RowClickRendered ==
    lastEvent.kind = "rowClick" =>
        /\ selectedHook = lastEvent.hook
        /\ ~sidebarOpen
        /\ MountedPanels(main) = {OwnPanel(lastEvent.hook)}

C2_Witness ==
    /\ lastEvent.kind = "rowClick"
    /\ selectedHook = "useReducer"
    /\ main = "UseReducerDemo"
    /\ ~sidebarOpen

\* C3: in every reachable state selected is a catalog id and exactly one demo
\* panel is mounted, the panel of selected.
C3_OnePanelOfSelected ==
    /\ selectedHook \in CatalogIds
    /\ MountedPanels(main) = {OwnPanel(selectedHook)}
    /\ Cardinality(MountedPanels(main)) = 1

C3_Witness ==
    /\ selectedHook = "useImperativeHandle"
    /\ main = "UseImperativeHandleDemo"
    /\ sidebarOpen
    /\ notifications # << >>

\* C4: after a panel swap no interval, timeout or other callback registered by
\* the unmounted panel fires.
C4_NoCallbackAfterUnmount == ~lastEvent.stale

\* C5: at initial mount selected = "useState", the first catalog entry, the
\* sidebar is closed and the useState panel is rendered.
C5_InitialMount ==
    lastEvent.kind = "mount" =>
        /\ selectedHook = "useState"
        /\ selectedHook = hooks[1].id
        /\ sidebarOpen = FALSE
        /\ MountedPanels(main) = {"UseStateDemo"}

C5_Witness ==
    /\ lastEvent.kind = "mount"
    /\ calls = << >>
    /\ timers = {}

\* C6: an overlay click (possible only while the sidebar is open) or a click
\* on the close button invokes onClose only: the sidebar ends closed, and
\* selected and the mounted panel are unchanged.
C6_CloseOnly ==
    [][lastEvent'.kind \in SidebarCloseKinds =>
          /\ calls' = << Call("onClose", "") >>
          /\ sidebarOpen' = FALSE
          /\ selectedHook' = selectedHook
          /\ main' = main
          /\ (lastEvent'.kind = "overlayClick" => sidebarOpen)]_vars

C6_Witness ==
    /\ lastEvent.kind = "overlayClick"
    /\ selectedHook = "useMemo"
    /\ ~sidebarOpen

\* C7: selected changes only in a row-click step, and a panel-internal event
\* changes neither selected nor sidebarOpen.
C7_SelectedOnlyByRowClick ==
    [][/\ (selectedHook' # selectedHook => lastEvent'.kind = "rowClick")
       /\ (lastEvent'.kind \in PanelEventKinds =>
              /\ selectedHook' = selectedHook
              /\ sidebarOpen' = sidebarOpen)]_vars

C7_Witness ==
    /\ lastEvent.kind = "timerFire"
    /\ selectedHook = "useCallback"
    /\ sidebarOpen
    /\ cbDemo.seconds > 0

\* C8: for each catalog id renderHookDemo returns that id's own demo panel,
\* and two different catalog ids never get the same panel.
C8_DispatchTotalInjective ==
    /\ rArg \in CatalogIds => (rOut = OwnPanel(rArg) /\ rOut \in DemoPanels)
    /\ (rArg \in CatalogIds /\ rPrevArg \in CatalogIds /\ rArg # rPrevArg)
          => rOut # rPrevOut

C8_Witness ==
    /\ rArg = "useDebugValue"
    /\ rPrevArg = "useImperativeHandle"
    /\ rOut = "UseDebugValueDemo"

\* C9: for an id outside the catalog renderHookDemo returns the placeholder
\* element, which is no demo panel.
C9_UnknownIdPlaceholder ==
    rArg \notin CatalogIds => (rOut = Placeholder /\ rOut \notin DemoPanels)

C9_Witness ==
    /\ rArg = "useTransition"
    /\ rPrevArg = "useState"
    /\ rOut = Placeholder

\* C10: in the useRef stopwatch, the useCallback timer and the useEffect timer
\* the mounted demo has at most one active interval of its own, and none
\* while its running flag is false.
C10_AtMostOneInterval ==
    /\ Cardinality(LiveIntervals("UseCallbackDemo.timer")) <= 1
    /\ ~cbDemo.isRunning => LiveIntervals("UseCallbackDemo.timer") = {}
    /\ Cardinality(LiveIntervals("UseRefDemo.timer")) <= 1
    /\ ~refDemo.isRunning => LiveIntervals("UseRefDemo.timer") = {}
    /\ Cardinality(LiveIntervals("UseEffectDemo.timer")) <= 1
    /\ ~effDemo.isTimerRunning => LiveIntervals("UseEffectDemo.timer") = {}

C10_Witness ==
    /\ lastEvent.kind = "cbStartStopClick"
    /\ cbDemo.isRunning
    /\ cbDemo.timerRef = 2
    /\ Cardinality(LiveIntervals("UseCallbackDemo.timer")) = 1

\* C12: the Sidebar renders one row per catalog entry, in the order useState,
\* useEffect, useContext, useReducer, useCallback, useMemo, useRef,
\* useImperativeHandle, useLayoutEffect, useDebugValue, each row with the
\* catalog's category; the order is the same for every selectedHook and isOpen.
C12_RowsInCatalogOrder ==
    LET rows == SidebarRows(selectedHook, sidebarOpen)
    IN  /\ [i \in 1..Len(rows) |-> rows[i].id] =
              << "useState", "useEffect", "useContext", "useReducer", "useCallback",
                 "useMemo", "useRef", "useImperativeHandle", "useLayoutEffect",
                 "useDebugValue" >>
        /\ [i \in 1..Len(rows) |-> rows[i].category] =
              << "Basic", "Basic", "Basic", "Advanced", "Performance",
                 "Performance", "Advanced", "Advanced", "Advanced", "Advanced" >>
        /\ \A i \in 1..Len(rows) : rows[i].selected <=> rows[i].id = selectedHook
        /\ \A s \in CatalogIds, o \in BOOLEAN :
              \A i \in 1..Len(rows) : SidebarRows(s, o)[i].id = rows[i].id

C12_Witness ==
    /\ selectedHook = "useDebugValue"
    /\ sidebarOpen
    /\ SidebarRows(selectedHook, sidebarOpen)[10].selected
    /\ SidebarRows(selectedHook, sidebarOpen)[1].id = "useState"

\* C13: getCategoryColor gives the green style for Basic, the blue style for
\* Advanced, the purple style for Performance and the gray style for every
\* other string; it returns a style for every string.
C13_CategoryStyle ==
    /\ catCall.category = "Basic" =>
          catCall.style = "bg-green-100 text-green-800 hover:bg-green-200"
    /\ catCall.category = "Advanced" =>
          catCall.style = "bg-blue-100 text-blue-800 hover:bg-blue-200"
    /\ catCall.category = "Performance" =>
          catCall.style = "bg-purple-100 text-purple-800 hover:bg-purple-200"
    /\ catCall.category \notin {"Basic", "Advanced", "Performance"} =>
          catCall.style = "bg-gray-100 text-gray-800 hover:bg-gray-200"

C13_Witness ==
    /\ catCall.category = "Expert"
    /\ catCall.prevCategory = "Performance"
    /\ catCall.style = "bg-gray-100 text-gray-800 hover:bg-gray-200"

\* C14: the header toggle negates sidebarOpen, so two toggles restore it, and
\* sidebarOpen becomes true only by the header toggle; a row click, an overlay
\* click and the close button leave it false.
C14_OpenOnlyByToggle ==
    [][/\ lastEvent'.kind = "headerToggle" =>
             /\ sidebarOpen' = ~sidebarOpen
             /\ headerToggle(headerToggle(Nav)).sidebarOpen = sidebarOpen
       /\ lastEvent'.kind \in SidebarCloseKinds \cup {"rowClick"} => ~sidebarOpen'
       /\ (sidebarOpen' /\ ~sidebarOpen) => lastEvent'.kind = "headerToggle"]_vars

C14_Witness ==
    /\ lastEvent.kind = "headerToggle"
    /\ ~sidebarOpen
    /\ selectedHook = "useRef"

\* C11: useLocalStorage mounted on a stored string that is not valid JSON has
\* the caller's initial value as its state and does not throw; a missing or
\* empty stored string gives the initial value too.
C11_FallbackToInitialValue ==
    (~lsCall.item.present \/ lsCall.item.text = << >> \/ ~IsJson(lsCall.item.text)) =>
        /\ ~lsCall.threw
        /\ lsCall.storedValue = lsCall.initialValue

C11_Witness ==
    /\ lsCall.item.present
    /\ lsCall.item.text = << "{", "\"", "a" >>
    /\ lsCall.initialValue.type = "object"
    /\ lsCall.storedValue = lsCall.initialValue

\* C15: while the useReducer panel's timer is running an interval dispatches
\* TICK every second, so seconds increases after START; the interval is
\* cleared when isRunning becomes false.
C15_RunningTimerTicks ==
    /\ redTimer.isRunning => LiveIntervals("UseReducerDemo.timer") # {}
    /\ ~redTimer.isRunning => LiveIntervals("UseReducerDemo.timer") = {}

\* C16: a click on Submit in the useReducer form starts a submission
\* (isSubmitting becomes true) if and only if the values in the form at the
\* click pass VALIDATE_FORM's rules.
C16_SubmitIffValid ==
    lastEvent.kind = "redFormSubmitClick" =>
        (redForm.isSubmitting <=> formReducer(redForm, Action("VALIDATE_FORM", 0)).isValid)

\* C17: counterReducer, timerReducer, todoReducer, cartReducer and formReducer
\* are pure: the same action applied to the same state gives the same next
\* state, whatever the time of the call.
C17_ReducersPure ==
    pureCall.reducer # "none" => pureCall.out1 = pureCall.out2

\* C18: in the ImperativeTimer, whenever timeRemaining is 0 isRunning is false
\* and the status reads Finished, and whenever isRunning is true an interval
\* is ticking, after any sequence of start, pause, reset, setTime, addTime
\* and ticks.
C18_FinishedNotRunning ==
    /\ impTimer.timeRemaining = 0 =>
          (~impTimer.isRunning /\ ImperativeTimer_status(impTimer) = "Finished")
    /\ impTimer.isRunning => LiveIntervals("ImperativeTimer.tick") # {}

\* C19: in ScrollSync isScrolling is reset after scrolling: while the badge
\* reads Scrolling a reset of isScrolling to false is pending, so once the
\* scroll events stop the badge returns to Idle.
C19_ScrollingIsReset ==
    ScrollSync_badge(scrollSync) = "Scrolling" =>
        \E t \in timers : t.live /\ t.tag = "ScrollSync.reset"

\* C20: every notification shown has its own auto-hide timeout pending (so
\* it is removed 3 seconds after show unless hide or clear removed it), and
\* an auto-hide timeout removes only the notification it was created for.
C20_AutoHideOwnNotification ==
    /\ \A i \in 1..Len(notifications) :
          \E t \in timers :
              t.live /\ t.tag = "NotificationSystem.autoHide" /\ t.arg = notifications[i]
    /\ \A t \in timers :
          (t.live /\ t.tag = "NotificationSystem.autoHide") =>
              Len(notifications) - Len(NotificationSystem_autoHide(notifications, t.arg)) <= 1

\* C24: in every reachable state exactly one Sidebar row carries the selected
\* highlight, the row whose id is the Shell's selected, and the panel of the
\* highlighted row is the one mounted by the same render.
C24_OneHighlightedRow ==
    LET rows == SidebarRows(selectedHook, sidebarOpen)
        highlighted == {i \in 1..Len(rows) : rows[i].selected}
    IN  /\ Cardinality(highlighted) = 1
        /\ \A i \in highlighted :
              /\ rows[i].id = selectedHook
              /\ main = OwnPanel(rows[i].id)

C24_Witness ==
    /\ lastEvent.kind = "rowClick"
    /\ selectedHook = "useMemo"
    /\ main = "UseMemoDemo"
    /\ SidebarRows(selectedHook, sidebarOpen)[6].selected
    /\ ~SidebarRows(selectedHook, sidebarOpen)[1].selected

\* C21: in useTimer(30), 0 <= timeLeft <= duration in every state, timeLeft
\* goes down only by a tick, by exactly 1 and while isRunning, at timeLeft 0
\* isRunning is false and Start is disabled, and a countdown that is running
\* with timeLeft > 0 reaches timeLeft = 0 and isRunning = false unless it is
\* paused or reset.
C21_CountdownTerminates ==
    /\ [](/\ 0 <= dbgTimer.timeLeft /\ dbgTimer.timeLeft <= TimerDuration
          /\ dbgTimer.timeLeft = 0 =>
                (~dbgTimer.isRunning /\ TimerExample_startDisabled(dbgTimer)))
    /\ [][/\ lastEvent'.kind = "timerFire" =>
                (dbgTimer.isRunning /\ dbgTimer'.timeLeft = dbgTimer.timeLeft - 1)
          /\ dbgTimer'.timeLeft < dbgTimer.timeLeft => lastEvent'.kind = "timerFire"]_vars
    /\ (dbgTimer.isRunning /\ dbgTimer.timeLeft > 0) ~>
          \/ dbgTimer.timeLeft = 0 /\ ~dbgTimer.isRunning
          \/ lastEvent.kind \in {"dbgPauseClick", "dbgResetClick"}

C21_Witness ==
    /\ lastEvent.kind = "timerFire"
    /\ dbgTimer.timeLeft = 0
    /\ ~dbgTimer.isRunning
    /\ nextTimerId > TimerDuration

\* C22: in the debounced search of the useEffect panel isSearching is true
\* only while a debounce timeout for the current searchTerm is pending, so
\* it becomes false once the user stops changing searchTerm, also after
\* clearing it while a search is pending.
C22_SearchingOnlyWhilePending ==
    effSearch.isSearching =>
        \E t \in timers :
            /\ t.live /\ t.tag = "UseEffectDemo.search"
            /\ t.id = effSearch.searchTimeoutRef
            /\ effSearch.searchTerm # << >>

\* C23: in useFetch loading is true only while a simulated request that has
\* not been cancelled is in flight, so after url changes and enabled toggles
\* (unchecking 'Enable fetching' while a request is pending included) loading
\* becomes false once the requests are answered.
C23_LoadingOnlyWhileInFlight ==
    dbgFetch.loading =>
        \E t \in timers :
            /\ t.live /\ t.tag = "useFetch.request"
            /\ ~useFetch_cancelled(dbgFetch, t)

============================================================================
